---- MODULE Spec2Model ----
(***************************************************************************)
(* Model of src/main.py (Karimhusain/candle): the per-timeframe candle     *)
(* caches, the websocket feed handler on_message, the REST history fetch   *)
(* get_klines_rest, the scan scan_all_intervals_and_notify with the        *)
(* detectors it calls, and the threads that run them.                      *)
(*                                                                         *)
(* Prices and volumes are integers; a threshold such as 0.01 is applied    *)
(* by cross-multiplication (x < y * (1 - 0.01) is x * 100 < y * 99). Where *)
(* the rounding of the floats decides, in the confirmation of a swing      *)
(* point at the edge of its threshold and in round(level, 2), the floats   *)
(* are computed.                                                           *)
(* Times are bar numbers: the bar that opens at time k closes at k + 1.    *)
(***************************************************************************)
EXTENDS Integers, Sequences, FiniteSets, TLC

(* ------------------------------------------------------------------ *)
(* Configuration (src/main.py:17-45)                                   *)
(* ------------------------------------------------------------------ *)

\* INTERVALS, in the order the scan iterates them
INTERVALS == <<"1h", "4h", "1d">>

TFS == {INTERVALS[i] : i \in 1..Len(INTERVALS)}

\* CANDLE_LIMIT
CANDLE_LIMIT == [tf \in TFS |-> CASE tf = "1h" -> 300 [] tf = "4h" -> 200 [] OTHER -> 500]

\* the value None of last_processed_final_candle_time[tf]; every time is >= 1
NoTime == 0

\* the value None of _live_websocket_candle_data[tf] and of latest_candle
NoCandle == [is_none |-> TRUE]

(* ------------------------------------------------------------------ *)
(* Bounds of the model                                                 *)
(* ------------------------------------------------------------------ *)

\* feed messages delivered in one run
MaxMsgs == 2

\* timer scans of the main loop after the initial scan
MaxTimerScans == 0

\* the open time of the newest bar of the history the server holds at startup
Now == 100

\* the price of every bar of a flat history; feed bars trade one above it
BasePrice == 100

\* the longest view given to get_significant_swing_points on its own
MaxViewLen == 5

\* the widest window given to get_significant_swing_points on its own
MaxWindow == 2

\* the highest price of a bar given to get_candle_properties on its own
MaxPrice == 3

(* ------------------------------------------------------------------ *)
(* Candles                                                             *)
(* ------------------------------------------------------------------ *)

\* the candle dict built by get_klines_rest and by on_message
Candle(t, o, h, l, c, v, T, x) ==
    [time |-> t, open |-> o, high |-> h, low |-> l, close |-> c,
     volume |-> v, close_time |-> T, is_final_bar |-> x]

\* candles[i] with the code's 0-based index; a negative index counts from the end
At(candles, i) == IF i >= 0 THEN candles[i + 1] ELSE candles[Len(candles) + i + 1]

\* candles[-1]
Last(candles) == candles[Len(candles)]

Abs(a) == IF a >= 0 THEN a ELSE -a

(* ------------------------------------------------------------------ *)
(* Candle properties (src/main.py:80-113)                              *)
(* ------------------------------------------------------------------ *)

Max2(a, b) == IF a >= b THEN a ELSE b
Min2(a, b) == IF a <= b THEN a ELSE b

\* the quotient num / den of two numbers, den /= 0, kept exact
Ratio(num, den) == [num |-> num, den |-> den]

\* the number 0 the function returns for a ratio of a bar of no range
ZeroRatio == [num |-> 0, den |-> 1]

\* num / den < a / b
ratio_lt(num, den, a, b) ==
    IF den > 0 THEN num * b < a * den ELSE num * b > a * den

\* full_range_is_zero of a function that does not test the range
full_range_never_zero(c) == FALSE

\* `if full_range == 0` (line 87)
full_range_is_zero(c) == c.high - c.low = 0

\* get_candle_properties; raised is set when a division by full_range = 0 is met
get_candle_properties(c) ==
    LET body_abs == Abs(c.close - c.open)
        full_range == c.high - c.low
        upper_shadow == c.high - Max2(c.open, c.close)
        lower_shadow == Min2(c.open, c.close) - c.low
        common == [raised |-> FALSE,
                   body_abs |-> body_abs,
                   full_range |-> full_range,
                   upper_shadow |-> upper_shadow,
                   lower_shadow |-> lower_shadow,
                   is_bullish |-> c.close > c.open,
                   is_bearish |-> c.close < c.open,
                   is_doji_like |-> TRUE,
                   body_to_range_ratio |-> ZeroRatio,
                   upper_shadow_to_range_ratio |-> ZeroRatio,
                   lower_shadow_to_range_ratio |-> ZeroRatio]
    IN IF full_range_is_zero(c) THEN common
       ELSE IF full_range = 0 THEN [common EXCEPT !.raised = TRUE]
       ELSE [common EXCEPT
                !.is_doji_like = ratio_lt(body_abs, full_range, 15, 100),
                !.body_to_range_ratio = Ratio(body_abs, full_range),
                !.upper_shadow_to_range_ratio = Ratio(upper_shadow, full_range),
                !.lower_shadow_to_range_ratio = Ratio(lower_shadow, full_range)]

(* ------------------------------------------------------------------ *)
(* Trend direction (src/main.py:115-132)                               *)
(* ------------------------------------------------------------------ *)

\* sum(c["close"] for c in candles[lo..hi]), lo and hi 1-based and inclusive
RECURSIVE sum_closes(_, _, _)
sum_closes(candles, lo, hi) ==
    IF lo > hi THEN 0 ELSE candles[lo].close + sum_closes(candles, lo + 1, hi)

\* the comparison of sma_current with sma_prev, both exact fractions
trend_of(sum_current, n_current, sum_prev, n_prev) ==
    IF sum_current * n_prev > sum_prev * n_current THEN "Uptrend"
    ELSE IF sum_current * n_prev < sum_prev * n_current THEN "Downtrend"
    ELSE "Sideways"

\* get_trend_direction with sma_prev taken over the lookback_period closes that
\* precede the last lookback_period closes
get_trend_direction_previous_ten(candles) ==
    LET lookback_period == 10
        n == Len(candles)
    IN IF n < 2 * lookback_period THEN "Unknown"
       ELSE trend_of(sum_closes(candles, n - lookback_period + 1, n), lookback_period,
                     sum_closes(candles, n - 2 * lookback_period + 1, n - lookback_period),
                     lookback_period)

\* get_trend_direction with the default lookback_period: closes are the last 10
\* closes, sma_prev the mean of closes[:-1] and sma_current the mean of closes
get_trend_direction(candles) ==
    LET lookback_period == 10
        n == Len(candles)
    IN IF n < lookback_period THEN "Unknown"
       ELSE trend_of(sum_closes(candles, n - lookback_period + 1, n), lookback_period,
                     sum_closes(candles, n - lookback_period + 1, n - 1),
                     lookback_period - 1)

(* ------------------------------------------------------------------ *)
(* Candlestick detectors (src/main.py:157-314)                         *)
(* ------------------------------------------------------------------ *)

\* a ratio of get_candle_properties compared with the decimal a / b
ratio_above(r, a, b) == IF r.den > 0 THEN r.num * b > a * r.den ELSE r.num * b < a * r.den
ratio_below(r, a, b) == ratio_lt(r.num, r.den, a, b)

\* body of c2 > body of c1 * 0.9
is_bullish_engulfing(c1, c2, confirm_volume) ==
    /\ c1.close < c1.open /\ c2.close > c2.open
    /\ c2.close > c1.open /\ c2.open < c1.close
    /\ (c2.close - c2.open) * 10 > (c1.open - c1.close) * 9
    /\ confirm_volume => c2.volume > c1.volume

is_bearish_engulfing(c1, c2, confirm_volume) ==
    /\ c1.close > c1.open /\ c2.close < c2.open
    /\ c2.close < c1.open /\ c2.open > c1.close
    /\ (c2.open - c2.close) * 10 > (c1.close - c1.open) * 9
    /\ confirm_volume => c2.volume > c1.volume

\* the test both is_pin_bar and the four single-bar reversals start with
small_body(props) ==
    ~(props.full_range = 0 \/ ratio_above(props.body_to_range_ratio, 4, 10))

is_pin_bar(c) ==
    LET props == get_candle_properties(c)
    IN /\ small_body(props)
       /\ \/ /\ props.is_bullish
             /\ props.lower_shadow * 10 >= 18 * props.body_abs
             /\ props.upper_shadow * 10 < 2 * props.full_range
          \/ /\ props.is_bearish
             /\ props.upper_shadow * 10 >= 18 * props.body_abs
             /\ props.lower_shadow * 10 < 2 * props.full_range

is_doji(c) == get_candle_properties(c).is_doji_like

\* is_hammer_shape; both branches of the return on trend_context give it
is_hammer(c, trend_context) ==
    LET props == get_candle_properties(c)
    IN /\ small_body(props)
       /\ props.lower_shadow * 10 >= 18 * props.body_abs
       /\ props.upper_shadow * 100 < 15 * props.full_range

is_hanging_man(c, trend_context) ==
    LET props == get_candle_properties(c)
    IN /\ small_body(props)
       /\ props.lower_shadow * 10 >= 18 * props.body_abs
       /\ props.upper_shadow * 100 < 15 * props.full_range

is_inverted_hammer(c, trend_context) ==
    LET props == get_candle_properties(c)
    IN /\ small_body(props)
       /\ props.upper_shadow * 10 >= 18 * props.body_abs
       /\ props.lower_shadow * 100 < 15 * props.full_range

is_shooting_star(c, trend_context) ==
    LET props == get_candle_properties(c)
    IN /\ small_body(props)
       /\ props.upper_shadow * 10 >= 18 * props.body_abs
       /\ props.lower_shadow * 100 < 15 * props.full_range

is_morning_star(c1, c2, c3) ==
    LET props1 == get_candle_properties(c1)
        props2 == get_candle_properties(c2)
        props3 == get_candle_properties(c3)
    IN /\ props1.is_bearish /\ props3.is_bullish
       /\ ratio_above(props1.body_to_range_ratio, 4, 10)
       /\ ratio_above(props3.body_to_range_ratio, 4, 10)
       /\ props2.is_doji_like \/ ratio_below(props2.body_to_range_ratio, 4, 10)
       /\ c3.close * 2 > c1.open + c1.close

is_evening_star(c1, c2, c3) ==
    LET props1 == get_candle_properties(c1)
        props2 == get_candle_properties(c2)
        props3 == get_candle_properties(c3)
    IN /\ props1.is_bullish /\ props3.is_bearish
       /\ ratio_above(props1.body_to_range_ratio, 4, 10)
       /\ ratio_above(props3.body_to_range_ratio, 4, 10)
       /\ props2.is_doji_like \/ ratio_below(props2.body_to_range_ratio, 4, 10)
       /\ c3.close * 2 < c1.open + c1.close

is_inside_bar(c1, c2) == c2.high < c1.high /\ c2.low > c1.low

is_outside_bar(c1, c2) == c2.high > c1.high /\ c2.low < c1.low

\* is_tweezer_top for c1["high"] /= 0
is_tweezer_top(c1, c2) ==
    /\ ratio_lt(Abs(c1.high - c2.high), c1.high, 1, 1000)
    /\ c1.close > c1.open /\ c2.close < c2.open

\* is_tweezer_bottom for c1["low"] /= 0
is_tweezer_bottom(c1, c2) ==
    /\ ratio_lt(Abs(c1.low - c2.low), c1.low, 1, 1000)
    /\ c1.close < c1.open /\ c2.close > c2.open

is_three_white_soldiers(c1, c2, c3) ==
    LET props1 == get_candle_properties(c1)
        props2 == get_candle_properties(c2)
        props3 == get_candle_properties(c3)
    IN /\ props1.is_bullish /\ props2.is_bullish /\ props3.is_bullish
       /\ ratio_above(props1.body_to_range_ratio, 5, 10)
       /\ ratio_above(props2.body_to_range_ratio, 5, 10)
       /\ ratio_above(props3.body_to_range_ratio, 5, 10)
       /\ c2.close > c1.close /\ c3.close > c2.close
       /\ c2.open > c1.open /\ c2.open * 100 < c1.close * 101
       /\ c3.open > c2.open /\ c3.open * 100 < c2.close * 101

is_three_black_crows(c1, c2, c3) ==
    LET props1 == get_candle_properties(c1)
        props2 == get_candle_properties(c2)
        props3 == get_candle_properties(c3)
    IN /\ props1.is_bearish /\ props2.is_bearish /\ props3.is_bearish
       /\ ratio_above(props1.body_to_range_ratio, 5, 10)
       /\ ratio_above(props2.body_to_range_ratio, 5, 10)
       /\ ratio_above(props3.body_to_range_ratio, 5, 10)
       /\ c2.close < c1.close /\ c3.close < c2.close
       /\ c2.open < c1.open /\ c2.open * 100 > c1.close * 99
       /\ c3.open < c2.open /\ c3.open * 100 > c2.close * 99

is_dark_cloud_cover(c1, c2) ==
    /\ c1.close > c1.open /\ c2.close < c2.open
    /\ c2.open > c1.high
    /\ c2.close * 2 < c1.open + c1.close /\ c2.close > c1.open
    /\ ~ratio_below(get_candle_properties(c2).body_to_range_ratio, 5, 10)

is_piercing_pattern(c1, c2) ==
    /\ c1.close < c1.open /\ c2.close > c2.open
    /\ c2.open < c1.low
    /\ c2.close * 2 > c1.open + c1.close /\ c2.close < c1.open
    /\ ~ratio_below(get_candle_properties(c2).body_to_range_ratio, 5, 10)

is_bullish_harami(c1, c2) ==
    LET props1 == get_candle_properties(c1)
        props2 == get_candle_properties(c2)
    IN /\ props1.is_bearish /\ props2.is_bullish
       /\ ratio_above(props1.body_to_range_ratio, 5, 10)
       /\ ratio_below(props2.body_to_range_ratio, 5, 10)
       /\ c2.open > c1.close /\ c2.close < c1.open

is_bearish_harami(c1, c2) ==
    LET props1 == get_candle_properties(c1)
        props2 == get_candle_properties(c2)
    IN /\ props1.is_bullish /\ props2.is_bearish
       /\ ratio_above(props1.body_to_range_ratio, 5, 10)
       /\ ratio_below(props2.body_to_range_ratio, 5, 10)
       /\ c2.open < c1.close /\ c2.close > c1.open

\* f"{name} (in {current_trend} context)"
in_context(name, current_trend) ==
    IF name = "Hammer"
    THEN (IF current_trend = "Uptrend" THEN "Hammer (in Uptrend context)"
          ELSE IF current_trend = "Downtrend" THEN "Hammer (in Downtrend context)"
          ELSE IF current_trend = "Sideways" THEN "Hammer (in Sideways context)"
          ELSE "Hammer (in Unknown context)")
    ELSE IF name = "Hanging Man"
    THEN (IF current_trend = "Uptrend" THEN "Hanging Man (in Uptrend context)"
          ELSE IF current_trend = "Downtrend" THEN "Hanging Man (in Downtrend context)"
          ELSE IF current_trend = "Sideways" THEN "Hanging Man (in Sideways context)"
          ELSE "Hanging Man (in Unknown context)")
    ELSE IF name = "Inverted Hammer"
    THEN (IF current_trend = "Uptrend" THEN "Inverted Hammer (in Uptrend context)"
          ELSE IF current_trend = "Downtrend" THEN "Inverted Hammer (in Downtrend context)"
          ELSE IF current_trend = "Sideways" THEN "Inverted Hammer (in Sideways context)"
          ELSE "Inverted Hammer (in Unknown context)")
    ELSE (IF current_trend = "Uptrend" THEN "Shooting Star (in Uptrend context)"
          ELSE IF current_trend = "Downtrend" THEN "Shooting Star (in Downtrend context)"
          ELSE IF current_trend = "Sideways" THEN "Shooting Star (in Sideways context)"
          ELSE "Shooting Star (in Unknown context)")

\* `if test: patterns.append(name)`
listed(test, name) == IF test THEN <<name>> ELSE <<>>

\* is_tweezer_top divides by c1["high"], is_tweezer_bottom by c1["low"];
\* detect_price_action calls both on (candles[-2], candles[-1]) once it has 3 bars
detect_price_action_raises(candles) ==
    /\ Len(candles) >= 3
    /\ LET c2 == candles[Len(candles) - 1]
       IN c2.high = 0 \/ c2.low = 0

\* detect_price_action: [raised, patterns]; a ZeroDivisionError leaves no list
detect_price_action(candles, enable_volume_confirmation) ==
    IF Len(candles) < 3 THEN [raised |-> FALSE, patterns |-> <<>>]
    ELSE IF detect_price_action_raises(candles) THEN [raised |-> TRUE, patterns |-> <<>>]
    ELSE LET c1 == At(candles, -3)
             c2 == At(candles, -2)
             c3 == At(candles, -1)
             current_trend == get_trend_direction(SubSeq(candles, 1, Len(candles) - 1))
         IN [raised |-> FALSE,
             patterns |->
                 listed(is_bullish_engulfing(c2, c3, enable_volume_confirmation),
                        "Bullish Engulfing")
                 \o listed(is_bearish_engulfing(c2, c3, enable_volume_confirmation),
                           "Bearish Engulfing")
                 \o listed(is_inside_bar(c2, c3), "Inside Bar")
                 \o listed(is_outside_bar(c2, c3), "Outside Bar")
                 \o listed(is_tweezer_top(c2, c3), "Tweezer Top")
                 \o listed(is_tweezer_bottom(c2, c3), "Tweezer Bottom")
                 \o listed(is_dark_cloud_cover(c2, c3), "Dark Cloud Cover")
                 \o listed(is_piercing_pattern(c2, c3), "Piercing Pattern")
                 \o listed(is_bullish_harami(c2, c3), "Bullish Harami")
                 \o listed(is_bearish_harami(c2, c3), "Bearish Harami")
                 \o listed(is_pin_bar(c3), "Pin Bar")
                 \o listed(is_doji(c3), "Doji")
                 \o listed(is_hammer(c3, current_trend), in_context("Hammer", current_trend))
                 \o listed(is_hanging_man(c3, current_trend),
                           in_context("Hanging Man", current_trend))
                 \o listed(is_inverted_hammer(c3, current_trend),
                           in_context("Inverted Hammer", current_trend))
                 \o listed(is_shooting_star(c3, current_trend),
                           in_context("Shooting Star", current_trend))
                 \o listed(is_morning_star(c1, c2, c3), "Morning Star")
                 \o listed(is_evening_star(c1, c2, c3), "Evening Star")
                 \o listed(is_three_white_soldiers(c1, c2, c3), "Three White Soldiers")
                 \o listed(is_three_black_crows(c1, c2, c3), "Three Black Crows")]

(* ------------------------------------------------------------------ *)
(* Confirmations across timeframes (src/main.py:499-525)               *)
(* ------------------------------------------------------------------ *)

\* tf_order
tf_order == [tf \in TFS |-> IF tf = "1h" THEN 1 ELSE IF tf = "4h" THEN 2 ELSE 3]

\* str.upper() on the names of the timeframes
upper(tf) == IF tf = "1h" THEN "1H" ELSE IF tf = "4h" THEN "4H" ELSE "1D"

\* the pattern names of the program in which "Bullish", "Hammer", "Morning Star",
\* "Double Bottom" or "Inverse Head & Shoulders" occurs
bullish_names ==
    {"Bullish Engulfing", "Bullish Harami", "Morning Star", "Double Bottom",
     "Inverse Head & Shoulders", "Bullish BOS (New HH)",
     "Bullish CHoCH (Downtrend Reversal)",
     "Hammer (in Uptrend context)", "Hammer (in Downtrend context)",
     "Hammer (in Sideways context)", "Hammer (in Unknown context)",
     "Inverted Hammer (in Uptrend context)", "Inverted Hammer (in Downtrend context)",
     "Inverted Hammer (in Sideways context)", "Inverted Hammer (in Unknown context)"}

\* the pattern names in which "Bearish", "Shooting Star", "Evening Star",
\* "Double Top" or "Head & Shoulders" occurs
bearish_names ==
    {"Bearish Engulfing", "Bearish Harami", "Evening Star", "Double Top",
     "Head & Shoulders", "Inverse Head & Shoulders", "Bearish BOS (New LL)",
     "Bearish CHoCH (Uptrend Reversal)",
     "Shooting Star (in Uptrend context)", "Shooting Star (in Downtrend context)",
     "Shooting Star (in Sideways context)", "Shooting Star (in Unknown context)"}

\* line 507 with no test of the rank
any_rank(tf_name, current_tf_name) == TRUE

\* line 507: tf_order.get(tf_name, 0) >= tf_order.get(current_tf_name, 0)
same_or_higher_rank(tf_name, current_tf_name) ==
    tf_order[tf_name] >= tf_order[current_tf_name]

\* one pass of the loop over all_tf_data.items(): the confirmations it appends,
\* each f-string as the sequence of its pieces
confirmations_of(tf_name, current_tf_patterns, all_tf_data, current_tf_name) ==
    LET tf_candles_list == all_tf_data[tf_name]
        current_trend_main == get_trend_direction(all_tf_data[current_tf_name])
        higher_tf_trend == get_trend_direction(tf_candles_list)
        is_bullish_pattern ==
            \E k \in 1..Len(current_tf_patterns) : current_tf_patterns[k] \in bullish_names
        is_bearish_pattern ==
            \E k \in 1..Len(current_tf_patterns) : current_tf_patterns[k] \in bearish_names
    IN IF tf_name = current_tf_name \/ Len(tf_candles_list) < 5 THEN <<>>
       ELSE IF ~same_or_higher_rank(tf_name, current_tf_name) THEN <<>>
       ELSE (IF higher_tf_trend = "Uptrend" /\ current_trend_main = "Uptrend"
             THEN << <<"Tren naik selaras di ", upper(tf_name)>> >>
             ELSE IF higher_tf_trend = "Downtrend" /\ current_trend_main = "Downtrend"
             THEN << <<"Tren turun selaras di ", upper(tf_name)>> >>
             ELSE <<>>)
            \o (IF is_bullish_pattern /\ higher_tf_trend = "Uptrend"
                THEN << <<"Pola bullish di ", upper(current_tf_name),
                          " didukung tren Uptrend di ", upper(tf_name)>> >>
                ELSE IF is_bearish_pattern /\ higher_tf_trend = "Downtrend"
                THEN << <<"Pola bearish di ", upper(current_tf_name),
                          " didukung tren Downtrend di ", upper(tf_name)>> >>
                ELSE <<>>)

\* get_multi_tf_confirmations; all_tf_data holds the timeframes in the order of
\* INTERVALS, the order in which the scan fills it
get_multi_tf_confirmations(current_tf_patterns, all_tf_data, current_tf_name) ==
    LET RECURSIVE loop(_)
        loop(k) ==
            IF k > Len(INTERVALS) THEN <<>>
            ELSE confirmations_of(INTERVALS[k], current_tf_patterns, all_tf_data,
                                  current_tf_name) \o loop(k + 1)
    IN loop(1)

(* ------------------------------------------------------------------ *)
(* The arithmetic of floats (src/main.py:65-69, 80-113, 328, 335, 483 *)
(* and 491-493): float() of a decimal string and the arithmetic of    *)
(* doubles, each result the nearest double, a tie going to the even   *)
(* one                                                                *)
(* ------------------------------------------------------------------ *)

\* the binary digits of one limb of a natural number
LimbBits == 27

\* a natural number as its limbs, digits to the base 2^LimbBits, the lowest
\* first and the highest not 0
nat_of(n) ==
    IF n = 0 THEN <<>>
    ELSE IF n < 2^LimbBits THEN <<n>>
    ELSE <<n % 2^LimbBits, n \div 2^LimbBits>>

\* the limbs without the zeros at the high end
nat_norm(a) ==
    LET used == {i \in 1..Len(a) : a[i] /= 0}
    IN IF used = {} THEN <<>>
       ELSE SubSeq(a, 1, CHOOSE i \in used : \A j \in used : j <= i)

limb_at(a, i) == IF 1 <= i /\ i <= Len(a) THEN a[i] ELSE 0

\* the number a of at most two limbs
nat_value(a) == limb_at(a, 1) + limb_at(a, 2) * 2^LimbBits

RECURSIVE nat_add_from(_, _, _, _)
nat_add_from(a, b, i, carry) ==
    IF i > Len(a) /\ i > Len(b) THEN (IF carry = 1 THEN <<1>> ELSE <<>>)
    ELSE LET s == limb_at(a, i) + limb_at(b, i) + carry
         IN <<s % 2^LimbBits>> \o nat_add_from(a, b, i + 1, s \div 2^LimbBits)

\* a + b
nat_add(a, b) == nat_add_from(a, b, 1, 0)

RECURSIVE nat_sub_from(_, _, _, _)
nat_sub_from(a, b, i, borrow) ==
    IF i > Len(a) THEN <<>>
    ELSE LET d == limb_at(a, i) - limb_at(b, i) - borrow
         IN <<(d + 2^LimbBits) % 2^LimbBits>>
            \o nat_sub_from(a, b, i + 1, IF d < 0 THEN 1 ELSE 0)

\* a - b for a >= b
nat_sub(a, b) == nat_norm(nat_sub_from(a, b, 1, 0))

\* a < b
nat_less(a, b) ==
    IF Len(a) /= Len(b) THEN Len(a) < Len(b)
    ELSE \E i \in 1..Len(a) :
            a[i] < b[i] /\ \A j \in (i + 1)..Len(a) : a[j] = b[j]

\* the number of binary digits of a
nat_bits(a) ==
    IF a = <<>> THEN 0
    ELSE LimbBits * (Len(a) - 1)
         + (CHOOSE k \in 1..LimbBits : 2^(k - 1) <= a[Len(a)] /\ a[Len(a)] < 2^k)

\* a * 2^k
nat_shl(a, k) ==
    LET r == k % LimbBits
        moved == [i \in 1..(Len(a) + 1) |->
                     (limb_at(a, i) % 2^(LimbBits - r)) * 2^r
                     + limb_at(a, i - 1) \div 2^(LimbBits - r)]
    IN IF a = <<>> THEN <<>>
       ELSE [i \in 1..(k \div LimbBits) |-> 0] \o nat_norm(moved)

\* a divided by 2^k, the remainder dropped
nat_shr(a, k) ==
    LET q == k \div LimbBits
        r == k % LimbBits
    IN nat_norm([i \in 1..(Len(a) - q) |->
                    limb_at(a, i + q) \div 2^r
                    + (limb_at(a, i + q + 1) % 2^r) * 2^(LimbBits - r)])

\* the remainder of a divided by 2^k
nat_low(a, k) ==
    LET q == k \div LimbBits
        r == k % LimbBits
    IN nat_norm([i \in 1..Min2(q + 1, Len(a)) |->
                    IF i <= q THEN a[i] ELSE a[i] % 2^r])

\* the binary digit of a that counts 2^k
nat_bit(a, k) == (limb_at(a, k \div LimbBits + 1) \div 2^(k % LimbBits)) % 2

\* the digits of the lower half of a limb
HalfBits == 14

\* the product of two limbs, from the products of their halves
limb_mul(x, y) ==
    LET xh == x \div 2^HalfBits
        xl == x % 2^HalfBits
        yh == y \div 2^HalfBits
        yl == y % 2^HalfBits
    IN nat_add(nat_add(nat_shl(nat_of(xh * yh), 2 * HalfBits),
                       nat_shl(nat_of(xh * yl + xl * yh), HalfBits)),
               nat_of(xl * yl))

RECURSIVE nat_mul_from(_, _, _)
nat_mul_from(a, b, k) ==
    IF k > Len(a) * Len(b) THEN <<>>
    ELSE LET i == (k - 1) \div Len(b) + 1
             j == ((k - 1) % Len(b)) + 1
         IN nat_add(nat_shl(limb_mul(a[i], b[j]), LimbBits * (i + j - 2)),
                    nat_mul_from(a, b, k + 1))

\* a * b
nat_mul(a, b) == nat_mul_from(a, b, 1)

\* one step of the long division of a by b: the binary digit of a that counts
\* 2^(st.k - 1) joins the remainder, and the quotient gets its next digit; no
\* digit is left when st.k = 0
nat_divmod_step(a, b, st) ==
    LET r1 == nat_add(nat_shl(st.r, 1), nat_of(nat_bit(a, st.k - 1)))
    IN IF st.k = 0 THEN st
       ELSE IF nat_less(r1, b)
       THEN [k |-> st.k - 1, q |-> nat_shl(st.q, 1), r |-> r1]
       ELSE [k |-> st.k - 1, q |-> nat_add(nat_shl(st.q, 1), <<1>>), r |-> nat_sub(r1, b)]

\* four steps in a row
nat_divmod_step4(a, b, st) ==
    nat_divmod_step(a, b, nat_divmod_step(a, b, nat_divmod_step(a, b,
        nat_divmod_step(a, b, st))))

\* long division from the digit 2^(st.k - 1) down, st.q and st.r being quotient
\* and remainder of the digits above it
RECURSIVE nat_divmod_from(_, _, _)
nat_divmod_from(a, b, st) ==
    IF st.k = 0 THEN [q |-> st.q, r |-> st.r]
    ELSE nat_divmod_from(a, b, nat_divmod_step4(a, b, st))

\* quotient and remainder of a divided by b, b /= 0: the digits of a above
\* 2^k, fewer than b has, are below b
nat_divmod(a, b) ==
    LET k == Max2(0, nat_bits(a) - nat_bits(b) + 1)
    IN nat_divmod_from(a, b, [k |-> k, q |-> <<>>, r |-> nat_shr(a, k)])

\* the digits of the significand of a double
Precision == 53

\* the double 0.0; every other double is (-1)^neg * mant * 2^exp with a
\* significand mant of Precision binary digits
FloatZero == [neg |-> FALSE, mant |-> <<>>, exp |-> 0]

\* rounding to the nearest double: up when the dropped digits exceed one half of
\* the last kept digit, and on a tie when the last kept digit is odd
round_nearest_even(kept, dropped, half) ==
    IF nat_less(half, dropped) \/ (dropped = half /\ nat_bit(kept, 0) = 1)
    THEN nat_add(kept, <<1>>)
    ELSE kept

\* the double nearest to (-1)^neg * n * 2^e
round_to_double(neg, n, e) ==
    IF n = <<>> THEN FloatZero
    ELSE IF nat_bits(n) <= Precision
    THEN [neg |-> neg, mant |-> nat_shl(n, Precision - nat_bits(n)),
          exp |-> e - (Precision - nat_bits(n))]
    ELSE LET cut == nat_bits(n) - Precision
             half == nat_shl(<<1>>, cut - 1)
             m == round_nearest_even(nat_shr(n, cut), nat_low(n, cut), half)
         IN IF nat_bits(m) > Precision
            THEN [neg |-> neg, mant |-> nat_shr(m, 1), exp |-> e + cut + 1]
            ELSE [neg |-> neg, mant |-> m, exp |-> e + cut]

\* a quotient and whether its division left a remainder, as one number with the
\* remainder marked in a digit below the quotient
with_sticky(d) == nat_add(nat_shl(d.q, 1), nat_of(IF d.r = <<>> THEN 0 ELSE 1))

\* the digits k is moved up by before it is divided by den, so that the
\* quotient has two digits more than a significand, however small k / den is
float_of_shift(k, den) ==
    Max2(0, Precision + 2 + nat_bits(nat_of(den)) - nat_bits(nat_of(k)))

\* float(s) for the decimal string s of k / den (lines 65-69 and 862-866): the
\* double nearest to k / den
float_of(k, den) ==
    IF k = 0 THEN FloatZero
    ELSE round_to_double(FALSE,
                         with_sticky(nat_divmod(nat_shl(nat_of(k), float_of_shift(k, den)),
                                                nat_of(den))),
                         -float_of_shift(k, den) - 1)

\* the float of a whole number k >= 0
float_of_int(k) == round_to_double(FALSE, nat_of(k), 0)

\* the int 1 as a float
FloatOne == float_of_int(1)

\* x + y
float_add(x, y) ==
    IF x.mant = <<>> THEN y
    ELSE IF y.mant = <<>> THEN x
    ELSE LET e == Min2(x.exp, y.exp)
             xm == nat_shl(x.mant, x.exp - e)
             ym == nat_shl(y.mant, y.exp - e)
         IN IF x.neg = y.neg THEN round_to_double(x.neg, nat_add(xm, ym), e)
            ELSE IF nat_less(xm, ym) THEN round_to_double(y.neg, nat_sub(ym, xm), e)
            ELSE round_to_double(x.neg, nat_sub(xm, ym), e)

\* -x
float_neg(x) == IF x.mant = <<>> THEN x ELSE [x EXCEPT !.neg = ~@]

\* x - y
float_sub(x, y) == float_add(x, float_neg(y))

\* abs(x) left out
float_abs_skipped(x) == x

\* abs(x)
float_abs(x) == [x EXCEPT !.neg = FALSE]

\* x < y for x, y >= 0
magnitude_less(x, y) ==
    IF y.mant = <<>> THEN FALSE
    ELSE IF x.mant = <<>> THEN TRUE
    ELSE x.exp < y.exp \/ (x.exp = y.exp /\ nat_less(x.mant, y.mant))

\* x < y
float_less(x, y) ==
    IF x.neg /= y.neg THEN x.neg
    ELSE IF x.neg THEN magnitude_less(y, x)
    ELSE magnitude_less(x, y)

\* max(x, y) and min(x, y) of Python: the first argument unless the second is
\* greater (smaller)
float_max(x, y) == IF float_less(x, y) THEN y ELSE x
float_min(x, y) == IF float_less(y, x) THEN y ELSE x

\* x / y for y /= 0
float_div(x, y) ==
    IF x.mant = <<>> THEN FloatZero
    ELSE round_to_double(x.neg /= y.neg,
                         with_sticky(nat_divmod(nat_shl(x.mant, 56), y.mant)),
                         x.exp - y.exp - 57)

\* x * y
float_mul(x, y) ==
    IF x.mant = <<>> \/ y.mant = <<>> THEN FloatZero
    ELSE round_to_double(x.neg /= y.neg, nat_mul(x.mant, y.mant), x.exp + y.exp)

\* int(x) for x >= 0: the whole part of x
float_int(x) ==
    IF x.mant = <<>> THEN 0
    ELSE IF x.exp >= 0 THEN nat_value(nat_shl(x.mant, x.exp))
    ELSE nat_value(nat_shr(x.mant, -x.exp))

\* the float num / den of the whole numbers r.num >= 0 and r.den > 0
float_quotient(r) == float_div(float_of_int(r.num), float_of_int(r.den))

\* round(x, 2) for x >= 0, as a number of hundredths: the one nearest to the
\* value the double holds, and the even one when that value lies halfway
round_hundredths(x) ==
    LET n == nat_mul(x.mant, nat_of(100))
    IN IF x.exp >= 0 THEN nat_value(nat_shl(n, x.exp))
       ELSE nat_value(round_nearest_even(nat_shr(n, -x.exp), nat_low(n, -x.exp),
                                         nat_shl(<<1>>, -x.exp - 1)))

\* get_candle_properties of a candle whose prices are doubles
get_candle_properties_of_floats(c) ==
    LET body_abs == float_abs(float_sub(c.close, c.open))
        full_range == float_sub(c.high, c.low)
        upper_shadow == float_sub(c.high, float_max(c.open, c.close))
        lower_shadow == float_sub(float_min(c.open, c.close), c.low)
        common == [body_abs |-> body_abs,
                   full_range |-> full_range,
                   upper_shadow |-> upper_shadow,
                   lower_shadow |-> lower_shadow,
                   is_bullish |-> float_less(c.open, c.close),
                   is_bearish |-> float_less(c.close, c.open),
                   is_doji_like |-> TRUE,
                   body_to_range_ratio |-> FloatZero,
                   upper_shadow_to_range_ratio |-> FloatZero,
                   lower_shadow_to_range_ratio |-> FloatZero]
    IN IF full_range = FloatZero THEN common
       ELSE [common EXCEPT
                !.is_doji_like = float_less(float_div(body_abs, full_range), float_of(15, 100)),
                !.body_to_range_ratio = float_div(body_abs, full_range),
                !.upper_shadow_to_range_ratio = float_div(upper_shadow, full_range),
                !.lower_shadow_to_range_ratio = float_div(lower_shadow, full_range)]

(* ------------------------------------------------------------------ *)
(* Swing points (src/main.py:316-338)                                  *)
(* ------------------------------------------------------------------ *)

\* is_swing_high with >= for >: a bar as high as bar i ends the loop too
is_swing_high_strict(candles, window, i) ==
    \A j \in (i - window)..(i + window) :
        j = i \/ ~(At(candles, j).high >= At(candles, i).high)

\* the inner loop over j for a swing high: no other bar of the window is higher
is_swing_high(candles, window, i) ==
    \A j \in (i - window)..(i + window) :
        j = i \/ ~(At(candles, j).high > At(candles, i).high)

\* the inner loop over j for a swing low: no other bar of the window is lower
is_swing_low(candles, window, i) ==
    \A j \in (i - window)..(i + window) :
        j = i \/ ~(At(candles, j).low < At(candles, i).low)

\* candles[i+window]["low"] < current_high * (1 - threshold) for the float
\* threshold = num / den. The float product is within 2^-23 of the exact one
\* (prices are below 2^27) and the two exact sides differ by a multiple of
\* 1 / den, so the floats compare as the exact numbers do unless those are
\* equal; then the floats decide, as they do for prices of 2^20 or more
high_confirmed(candles, window, num, den, i) ==
    LET low == At(candles, i + window).low
        current_high == At(candles, i).high
    IN IF current_high < 2^20 /\ low < 2^20 /\ low * den /= current_high * (den - num)
       THEN low * den < current_high * (den - num)
       ELSE float_less(float_of_int(low),
                       float_mul(float_of_int(current_high),
                                 float_sub(FloatOne, float_of(num, den))))

\* candles[i+window]["high"] > current_low * (1 + threshold), in the same way
low_confirmed(candles, window, num, den, i) ==
    LET high == At(candles, i + window).high
        current_low == At(candles, i).low
    IN IF current_low < 2^20 /\ high < 2^20 /\ high * den /= current_low * (den + num)
       THEN high * den > current_low * (den + num)
       ELSE float_less(float_mul(float_of_int(current_low),
                                 float_add(FloatOne, float_of(num, den))),
                       float_of_int(high))

\* range(i, len(candles) - window), the indices the outer loop visits from i on
loop_indices(candles, window, i) ==
    [k \in 1..Max2(0, Len(candles) - window - i) |-> i + k - 1]

\* swing_highs as the outer loop appends to it from index i on
swing_highs_from(candles, window, num, den, i) ==
    SelectSeq([k \in DOMAIN loop_indices(candles, window, i) |->
                  <<loop_indices(candles, window, i)[k],
                    At(candles, loop_indices(candles, window, i)[k]).high>>],
              LAMBDA p : high_confirmed(candles, window, num, den, p[1])
                         /\ is_swing_high(candles, window, p[1]))

\* swing_lows as the outer loop appends to it from index i on
swing_lows_from(candles, window, num, den, i) ==
    SelectSeq([k \in DOMAIN loop_indices(candles, window, i) |->
                  <<loop_indices(candles, window, i)[k],
                    At(candles, loop_indices(candles, window, i)[k]).low>>],
              LAMBDA p : low_confirmed(candles, window, num, den, p[1])
                         /\ is_swing_low(candles, window, p[1]))

\* get_significant_swing_points with the outer loop starting at 0
get_significant_swing_points_from_0(candles, window, num, den) ==
    IF Len(candles) < window * 2 + 1
    THEN [highs |-> <<>>, lows |-> <<>>]
    ELSE [highs |-> swing_highs_from(candles, window, num, den, 0),
          lows |-> swing_lows_from(candles, window, num, den, 0)]

\* get_significant_swing_points: [highs, lows], each a sequence of <<index, price>>
get_significant_swing_points(candles, window, num, den) ==
    IF Len(candles) < window * 2 + 1
    THEN [highs |-> <<>>, lows |-> <<>>]
    ELSE [highs |-> swing_highs_from(candles, window, num, den, window),
          lows |-> swing_lows_from(candles, window, num, den, window)]

(* ------------------------------------------------------------------ *)
(* Where the detectors divide: the ZeroDivisionError each can raise    *)
(* ------------------------------------------------------------------ *)

\* detect_double_top_bottom divides by h1_price, then by l1_price
double_top_bottom_divides_by_zero(sw) ==
    LET nh == Len(sw.highs)
        nl == Len(sw.lows)
    IN \/ /\ nh >= 2
          /\ sw.highs[nh][1] > sw.highs[nh - 1][1] + 5
          /\ sw.highs[nh - 1][2] = 0
       \/ /\ nl >= 2
          /\ sw.lows[nl][1] > sw.lows[nl - 1][1] + 5
          /\ sw.lows[nl - 1][2] = 0

detect_double_top_bottom_raises(candles) ==
    /\ Len(candles) >= 70
    /\ double_top_bottom_divides_by_zero(get_significant_swing_points(candles, 20, 1, 100))

\* max(prices) of a non-empty sequence
RECURSIVE max_seq(_)
max_seq(xs) == IF Len(xs) = 1 THEN xs[1] ELSE Max2(xs[1], max_seq(Tail(xs)))

\* min(prices) of a non-empty sequence
RECURSIVE min_seq(_)
min_seq(xs) == IF Len(xs) = 1 THEN xs[1] ELSE Min2(xs[1], min_seq(Tail(xs)))

\* [price for idx, price in points if lo < idx < hi]
prices_between(points, lo, hi) ==
    LET inside(p) == lo < p[1] /\ p[1] < hi
        kept == SelectSeq(points, inside)
    IN [k \in 1..Len(kept) |-> kept[k][2]]

\* lines 348-355: the pattern "Double Top" is appended (h1_price /= 0)
double_top_found(candles, sw) ==
    LET nh == Len(sw.highs)
        h2 == sw.highs[nh]
        h1 == sw.highs[nh - 1]
        valley_lows == prices_between(sw.lows, h1[1], h2[1])
    IN /\ nh >= 2
       /\ h2[1] > h1[1] + 5
       /\ h1[2] /= 0
       /\ ratio_lt(Abs(h1[2] - h2[2]), h1[2], 15, 1000)
       /\ valley_lows /= <<>>
       /\ Last(candles).close * 100 < max_seq(valley_lows) * 99

\* lines 357-364: the pattern "Double Bottom" is appended (l1_price /= 0)
double_bottom_found(candles, sw) ==
    LET nl == Len(sw.lows)
        l2 == sw.lows[nl]
        l1 == sw.lows[nl - 1]
        peak_highs == prices_between(sw.highs, l1[1], l2[1])
    IN /\ nl >= 2
       /\ l2[1] > l1[1] + 5
       /\ l1[2] /= 0
       /\ ratio_lt(Abs(l1[2] - l2[2]), l1[2], 15, 1000)
       /\ peak_highs /= <<>>
       /\ Last(candles).close * 100 > min_seq(peak_highs) * 101

\* lines 348-364: the patterns of the swing points sw
double_top_bottom_patterns(candles, sw) ==
    (IF double_top_found(candles, sw) THEN <<"Double Top">> ELSE <<>>)
    \o (IF double_bottom_found(candles, sw) THEN <<"Double Bottom">> ELSE <<>>)

\* detect_double_top_bottom: [raised, patterns]; a ZeroDivisionError leaves the
\* function without a result
detect_double_top_bottom(candles) ==
    IF Len(candles) < 70 THEN [raised |-> FALSE, patterns |-> <<>>]
    ELSE IF detect_double_top_bottom_raises(candles)
    THEN [raised |-> TRUE, patterns |-> <<>>]
    ELSE [raised |-> FALSE,
          patterns |->
              double_top_bottom_patterns(candles,
                                         get_significant_swing_points(candles, 20, 1, 100))]

\* detect_head_and_shoulders divides by s1_price, then by l1_price, each as the
\* last conjunct of its condition
head_and_shoulders_divides_by_zero(sw) ==
    LET nh == Len(sw.highs)
        nl == Len(sw.lows)
    IN \/ /\ nh >= 3 /\ nl >= 2
          /\ sw.highs[nh - 2][1] < sw.highs[nh - 1][1]
          /\ sw.highs[nh - 1][1] < sw.highs[nh][1]
          /\ sw.highs[nh - 1][2] * 100 > sw.highs[nh - 2][2] * 101
          /\ sw.highs[nh - 1][2] * 100 > sw.highs[nh][2] * 101
          /\ sw.highs[nh - 2][2] = 0
       \/ /\ nl >= 3 /\ nh >= 2
          /\ sw.lows[nl - 2][1] < sw.lows[nl - 1][1]
          /\ sw.lows[nl - 1][1] < sw.lows[nl][1]
          /\ sw.lows[nl - 1][2] * 100 < sw.lows[nl - 2][2] * 99
          /\ sw.lows[nl - 1][2] * 100 < sw.lows[nl][2] * 99
          /\ sw.lows[nl - 2][2] = 0

detect_head_and_shoulders_raises(candles) ==
    /\ Len(candles) >= 100
    /\ head_and_shoulders_divides_by_zero(get_significant_swing_points(candles, 20, 1, 100))

\* detect_chart_patterns calls the two in turn
detect_chart_patterns_raises(candles) ==
    detect_double_top_bottom_raises(candles) \/ detect_head_and_shoulders_raises(candles)

\* lines 386 and 402: (price1 + price2) / 2 of two float prices
neckline_level(price1, price2) ==
    float_div(float_of_int(price1 + price2), float_of_int(2))

\* lines 375-389: the pattern "Head & Shoulders" is appended (s1_price /= 0)
head_and_shoulders_found(candles, sw) ==
    LET nh == Len(sw.highs)
        s3 == sw.highs[nh]
        h == sw.highs[nh - 1]
        s1 == sw.highs[nh - 2]
        valley1 == prices_between(sw.lows, s1[1], h[1])
        valley2 == prices_between(sw.lows, h[1], s3[1])
        valley1_price == IF valley1 = <<>> THEN 0 ELSE max_seq(valley1)
        valley2_price == IF valley2 = <<>> THEN 0 ELSE max_seq(valley2)
    IN /\ nh >= 3 /\ Len(sw.lows) >= 2
       /\ s1[1] < h[1] /\ h[1] < s3[1]
       /\ h[2] * 100 > s1[2] * 101
       /\ h[2] * 100 > s3[2] * 101
       /\ s1[2] /= 0
       /\ ratio_lt(Abs(s1[2] - s3[2]), s1[2], 3, 100)
       /\ valley1_price > 0 /\ valley2_price > 0
       /\ float_less(float_of_int(Last(candles).close),
                     float_mul(neckline_level(valley1_price, valley2_price),
                               float_of(995, 1000)))

\* lines 391-405: the pattern "Inverse Head & Shoulders" is appended (l1_price /= 0)
inverse_head_and_shoulders_found(candles, sw) ==
    LET nl == Len(sw.lows)
        l3 == sw.lows[nl]
        h == sw.lows[nl - 1]
        l1 == sw.lows[nl - 2]
        peak1 == prices_between(sw.highs, l1[1], h[1])
        peak2 == prices_between(sw.highs, h[1], l3[1])
    IN /\ nl >= 3 /\ Len(sw.highs) >= 2
       /\ l1[1] < h[1] /\ h[1] < l3[1]
       /\ h[2] * 100 < l1[2] * 99
       /\ h[2] * 100 < l3[2] * 99
       /\ l1[2] /= 0
       /\ ratio_lt(Abs(l1[2] - l3[2]), l1[2], 3, 100)
       /\ peak1 /= <<>> /\ peak2 /= <<>>
       /\ float_less(float_mul(neckline_level(min_seq(peak1), min_seq(peak2)),
                               float_of(1005, 1000)),
                     float_of_int(Last(candles).close))

\* lines 375-405: the patterns of the swing points sw
head_and_shoulders_patterns(candles, sw) ==
    (IF head_and_shoulders_found(candles, sw) THEN <<"Head & Shoulders">> ELSE <<>>)
    \o (IF inverse_head_and_shoulders_found(candles, sw)
        THEN <<"Inverse Head & Shoulders">> ELSE <<>>)

\* detect_head_and_shoulders: [raised, patterns]
detect_head_and_shoulders(candles) ==
    IF Len(candles) < 100 THEN [raised |-> FALSE, patterns |-> <<>>]
    ELSE IF detect_head_and_shoulders_raises(candles)
    THEN [raised |-> TRUE, patterns |-> <<>>]
    ELSE [raised |-> FALSE,
          patterns |->
              head_and_shoulders_patterns(candles,
                                          get_significant_swing_points(candles, 20, 1, 100))]

\* patterns.extend(...) of the two results, unless one of the calls raised
chart_patterns_of(dt, hs) ==
    IF dt.raised \/ hs.raised THEN [raised |-> TRUE, patterns |-> <<>>]
    ELSE [raised |-> FALSE, patterns |-> dt.patterns \o hs.patterns]

\* detect_chart_patterns: the two lists one after the other
detect_chart_patterns(candles) ==
    chart_patterns_of(detect_double_top_bottom(candles), detect_head_and_shoulders(candles))

(* ------------------------------------------------------------------ *)
(* The chart patterns of a report entry (src/main.py:759-772)          *)
(* ------------------------------------------------------------------ *)

\* the pattern names in which "Head & Shoulders" occurs
names_with_head_and_shoulders == {"Head & Shoulders", "Inverse Head & Shoulders"}

\* the description of one pattern: the first branch of the if / elif chain whose
\* substring occurs in the pattern
cp_description(pattern) ==
    IF pattern = "Double Top"
    THEN "**Double Top**: Menunjukkan potensi pembalikan tren dari naik menjadi turun."
    ELSE IF pattern = "Double Bottom"
    THEN "**Double Bottom**: Menunjukkan potensi pembalikan tren dari turun menjadi naik."
    ELSE IF pattern \in names_with_head_and_shoulders
    THEN "**Head & Shoulders**: Menunjukkan potensi pembalikan tren dari naik menjadi turun."
    ELSE IF pattern = "Inverse Head & Shoulders"
    THEN "**Inverse Head & Shoulders**: Menunjukkan potensi pembalikan tren dari turun menjadi naik."
    ELSE pattern

\* cp_descriptions of one pass of the scan loop
cp_descriptions(cp_patterns) ==
    [k \in 1..Len(cp_patterns) |-> cp_description(cp_patterns[k])]

(* ------------------------------------------------------------------ *)
(* Structure breaks (src/main.py:417-455)                              *)
(* ------------------------------------------------------------------ *)

\* lines 436 and 446: "uptrend structure", a comparison of the indices of the
\* two most recent swing highs and of the two most recent swing lows
uptrend_structure(last_high, prev_high, last_low, prev_low) ==
    last_high[1] > prev_high[1] /\ last_low[1] > prev_low[1]

\* lines 440 and 450: "downtrend structure", the same comparison reversed
downtrend_structure(last_high, prev_high, last_low, prev_low) ==
    last_high[1] < prev_high[1] /\ last_low[1] < prev_low[1]

\* lines 425-453: the patterns of the swing points sw, in the order they are
\* appended
bos_choch_patterns(candles, sw) ==
    LET nh == Len(sw.highs)
        nl == Len(sw.lows)
    IN IF nh < 2 \/ nl < 2 THEN <<>>
       ELSE LET last_high == sw.highs[nh]
                prev_high == sw.highs[nh - 1]
                last_low == sw.lows[nl]
                prev_low == sw.lows[nl - 1]
                current_close == Last(candles).close
                up == uptrend_structure(last_high, prev_high, last_low, prev_low)
                down == downtrend_structure(last_high, prev_high, last_low, prev_low)
                above == current_close * 10000 > last_high[2] * 10005
                below == current_close * 10000 < last_low[2] * 9995
            IN (IF up /\ above THEN <<"Bullish BOS (New HH)">>
                ELSE IF ~up /\ down /\ below THEN <<"Bearish BOS (New LL)">>
                ELSE <<>>)
               \o (IF up /\ below THEN <<"Bearish CHoCH (Uptrend Reversal)">>
                   ELSE IF ~up /\ down /\ above
                   THEN <<"Bullish CHoCH (Downtrend Reversal)">>
                   ELSE <<>>)

\* detect_bos_choch: the patterns in the order they are appended
detect_bos_choch(candles) ==
    IF Len(candles) < 30 THEN <<>>
    ELSE bos_choch_patterns(candles, get_significant_swing_points(candles, 10, 2, 1000))

(* ------------------------------------------------------------------ *)
(* Support / resistance clustering (src/main.py:457-497)               *)
(* ------------------------------------------------------------------ *)

\* sorted(all_swing_prices): insertion of one price into an ascending sequence
RECURSIVE insert_sorted(_, _)
insert_sorted(sorted, p) ==
    IF sorted = <<>> THEN <<p>>
    ELSE IF p < Head(sorted) THEN <<p>> \o sorted
    ELSE <<Head(sorted)>> \o insert_sorted(Tail(sorted), p)

RECURSIVE sort_prices(_)
sort_prices(prices) ==
    IF prices = <<>> THEN <<>>
    ELSE insert_sorted(sort_prices(Tail(prices)), Head(prices))

\* [price for _, price in swing_highs + swing_lows]
all_swing_prices(sw) ==
    [k \in 1..(Len(sw.highs) + Len(sw.lows)) |->
        IF k <= Len(sw.highs) THEN sw.highs[k][2] ELSE sw.lows[k - Len(sw.highs)][2]]

\* abs(price - level_key) / level_key < price_tolerance_percent (0.001), for
\* level_key /= 0: a negative level_key makes the quotient <= 0
within_tolerance(price, level_key) ==
    IF level_key > 0 THEN Abs(price - level_key) * 1000 < level_key ELSE TRUE

\* the loop over level_key for one price: the index of the cluster the price
\* joins, 0 when it joins none, -1 when a level_key of 0 is divided by first
RECURSIVE find_cluster(_, _, _)
find_cluster(clusters, price, k) ==
    IF k > Len(clusters) THEN 0
    ELSE IF clusters[k].key = 0 THEN -1
    ELSE IF within_tolerance(price, clusters[k].key) THEN k
    ELSE find_cluster(clusters, price, k + 1)

\* the loop over sorted(all_swing_prices): clustered_levels in insertion order,
\* each [key, prices], with raised set when the loop divided by zero
RECURSIVE cluster_prices(_, _)
cluster_prices(acc, prices) ==
    IF prices = <<>> \/ acc.raised THEN acc
    ELSE LET p == Head(prices)
             k == find_cluster(acc.clusters, p, 1)
         IN IF k = -1 THEN [acc EXCEPT !.raised = TRUE]
            ELSE IF k = 0
            THEN cluster_prices(
                    [acc EXCEPT !.clusters = Append(@, [key |-> p, prices |-> <<p>>])],
                    Tail(prices))
            ELSE cluster_prices(
                    [acc EXCEPT !.clusters[k].prices = Append(@, p)],
                    Tail(prices))

RECURSIVE sum_seq(_)
sum_seq(xs) == IF xs = <<>> THEN 0 ELSE Head(xs) + sum_seq(Tail(xs))

\* sum(prices) / len(prices) as the exact fraction sum / n
level_of(cluster) == [sum |-> sum_seq(cluster.prices), n |-> Len(cluster.prices)]

\* level a < level b
level_lt(a, b) == a.sum * b.n < b.sum * a.n

RECURSIVE insert_level(_, _)
insert_level(sorted, lv) ==
    IF sorted = <<>> THEN <<lv>>
    ELSE IF level_lt(lv, Head(sorted)) THEN <<lv>> \o sorted
    ELSE <<Head(sorted)>> \o insert_level(Tail(sorted), lv)

\* final_sr_levels: the mean of every cluster of at least 2 prices, sorted
RECURSIVE final_sr_levels(_)
final_sr_levels(clusters) ==
    IF clusters = <<>> THEN <<>>
    ELSE LET rest == final_sr_levels(Tail(clusters))
         IN IF Len(Head(clusters).prices) >= 2
            THEN insert_level(rest, level_of(Head(clusters)))
            ELSE rest

Reverse(xs) == [k \in 1..Len(xs) |-> xs[Len(xs) + 1 - k]]

\* round(level, 2) cut off below the level instead of rounded to the nearest
round2_down(lv) == (100 * lv.sum) \div lv.n

\* round(level, 2) of the float level = sum(prices) / len(prices), as a number
\* of hundredths. The float is within 2^-26 of the exact mean (prices are below
\* 2^27), and an exact mean that is not halfway between two hundredths is at
\* least 1 / (2 * len(prices)) hundredths off the halfway point, so the float
\* rounds as the exact mean does; the float of a mean that is halfway decides
\* by its own value, and so does the float of a sum of 2^24 or more
round2(lv) ==
    LET q == (100 * lv.sum) \div lv.n
        r == (100 * lv.sum) % lv.n
    IN IF lv.sum < 2^24 /\ 2 * r < lv.n THEN q
       ELSE IF lv.sum < 2^24 /\ 2 * r > lv.n THEN q + 1
       ELSE round_hundredths(float_div(float_of_int(lv.sum), float_of_int(lv.n)))

\* lines 486-495: the levels below current_price are support, nearest first, the
\* others resistance, each rounded to hundredths
sr_of_levels(levels, current_price) ==
    LET below(lv) == lv.sum < current_price * lv.n
        above(lv) == ~below(lv)
        rounded(lvs) == [k \in 1..Len(lvs) |-> round2(lvs[k])]
    IN [raised |-> FALSE,
        support |-> Reverse(rounded(SelectSeq(levels, below))),
        resistance |-> rounded(SelectSeq(levels, above))]

\* lines 468-484: the clusters cl of the sorted prices and their levels
sr_of_clusters(cl, current_price) ==
    IF cl.raised
    THEN [raised |-> TRUE, support |-> <<>>, resistance |-> <<>>]
    ELSE sr_of_levels(final_sr_levels(cl.clusters), current_price)

\* lines 465-466: no swing price, no level
sr_of_prices(prices, current_price) ==
    IF prices = <<>>
    THEN [raised |-> FALSE, support |-> <<>>, resistance |-> <<>>]
    ELSE sr_of_clusters(cluster_prices([raised |-> FALSE, clusters |-> <<>>],
                                       sort_prices(prices)),
                        current_price)

\* detect_auto_sr: [raised, support, resistance], the levels in hundredths
detect_auto_sr(candles) ==
    IF Len(candles) < 50
    THEN [raised |-> FALSE, support |-> <<>>, resistance |-> <<>>]
    ELSE sr_of_prices(all_swing_prices(get_significant_swing_points(candles, 15, 3, 1000)),
                      Last(candles).close)

(* ------------------------------------------------------------------ *)
(* The narrative of a live candle (src/main.py:134-153 and 527-618)    *)
(* ------------------------------------------------------------------ *)

\* get_time_progress: times count the bars of the timeframe, and the clock of a
\* scan stands half a bar after Now; the result is elapsed_time / interval_sec
get_time_progress(candle_open_time, interval_str) ==
    LET elapsed_halves == 2 * (Now - candle_open_time) + 1
    IN IF elapsed_halves <= 0 THEN Ratio(0, 1)
       ELSE IF elapsed_halves >= 2 THEN Ratio(1, 1)
       ELSE Ratio(elapsed_halves, 2)

\* get_average_volume with the default lookback_period: the mean volume of
\* candles[-21:-1], 0.0 for fewer than 20 candles
get_average_volume(candles) ==
    LET lookback_period == 20
        n == Len(candles)
        first == Max2(1, n - lookback_period)
        recent_volumes == [k \in 1..(n - first) |-> candles[first + k - 1].volume]
    IN IF n < lookback_period THEN Ratio(0, 1)
       ELSE IF recent_volumes = <<>> THEN Ratio(0, 1)
       ELSE Ratio(sum_seq(recent_volumes), Len(recent_volumes))

\* one sentence of the narrative: its text, in which {} stands for the number the
\* f-string shows, and that number (0 when the text shows none)
Sentence(text) == [text |-> text, shown |-> ZeroRatio]
SentenceWith(text, shown) == [text |-> text, shown |-> shown]

\* the empty string the function returns for a final candle
NoNarrative == [potential_info |-> <<>>, process_info |-> <<>>, implication_info |-> <<>>]

\* get_live_candle_potential_and_process without the test of is_final_bar
candle_is_final_never(candle) == FALSE

\* `if candle["is_final_bar"]` (line 529)
candle_is_final(candle) == candle.is_final_bar

\* line 583: average_volume_prev_candles * time_progress, the product of the
\* two floats
expected_volume_at_this_progress(time_progress, average_volume_prev_candles) ==
    float_mul(float_quotient(average_volume_prev_candles), float_quotient(time_progress))

\* line 585: current_volume > expected_volume_at_this_progress * 1.2
volume_above_expected(current_volume, time_progress, average_volume_prev_candles) ==
    float_less(float_mul(expected_volume_at_this_progress(time_progress,
                                                          average_volume_prev_candles),
                         float_of(12, 10)),
               float_of_int(current_volume))

\* line 587: current_volume < expected_volume_at_this_progress * 0.8
volume_below_expected(current_volume, time_progress, average_volume_prev_candles) ==
    float_less(float_of_int(current_volume),
               float_mul(expected_volume_at_this_progress(time_progress,
                                                          average_volume_prev_candles),
                         float_of(8, 10)))

\* get_live_candle_potential_and_process: the three lists the returned text is
\* joined from (the symbols after **Bullish**, **Bearish** and **Netral** and
\* the quotes around the volume are left out of the texts)
get_live_candle_potential_and_process(candle, time_progress, average_volume_prev_candles) ==
    LET open_price == candle.open
        current_price == candle.close
        current_volume == candle.volume
        props == get_candle_properties(candle)
        lower_ratio == props.lower_shadow_to_range_ratio
        upper_ratio == props.upper_shadow_to_range_ratio
        body_ratio == props.body_to_range_ratio
        potential_info ==
            IF current_price > open_price
            THEN <<Sentence("Potensi Awal: **Bullish** (harga saat ini di atas pembukaan).")>>
            ELSE IF current_price < open_price
            THEN <<Sentence("Potensi Awal: **Bearish** (harga saat ini di bawah pembukaan).")>>
            ELSE <<Sentence("Potensi Awal: **Netral** (harga saat ini di dekat pembukaan).")>>
        process_info ==
            IF props.is_bullish
            THEN <<Sentence("Proses: Pembeli dominan mendorong harga naik.")>>
                 \o (IF ratio_above(lower_ratio, 2, 10)
                     THEN <<SentenceWith("Ada penolakan kuat dari bawah (lower shadow {} dari range).", lower_ratio)>>
                     ELSE <<>>)
                 \o (IF ratio_above(upper_ratio, 2, 10)
                     THEN <<SentenceWith("Ada penolakan dari atas (upper shadow {} dari range).", upper_ratio)>>
                     ELSE <<>>)
            ELSE IF props.is_bearish
            THEN <<Sentence("Proses: Penjual dominan menekan harga turun.")>>
                 \o (IF ratio_above(upper_ratio, 2, 10)
                     THEN <<SentenceWith("Ada penolakan kuat dari atas (upper shadow {} dari range).", upper_ratio)>>
                     ELSE <<>>)
                 \o (IF ratio_above(lower_ratio, 2, 10)
                     THEN <<SentenceWith("Ada penolakan dari bawah (lower shadow {} dari range).", lower_ratio)>>
                     ELSE <<>>)
            ELSE <<Sentence("Proses: Harga bergerak bolak-balik, menunjukkan keraguan pasar.")>>
        shape_info ==
            IF props.is_bullish
            THEN (IF ratio_above(lower_ratio, 2, 10)
                  THEN <<Sentence("Implikasi: Menunjukkan tekanan beli kuat di harga rendah, potensi kelanjutan naik.")>>
                  ELSE <<>>)
                 \o (IF ratio_above(upper_ratio, 2, 10)
                     THEN <<Sentence("Implikasi: Menunjukkan tekanan jual di harga tinggi, potensi pelemahan momentum naik.")>>
                     ELSE <<>>)
                 \o (IF ratio_above(body_ratio, 6, 10)
                     THEN <<Sentence("Implikasi: Momentum bullish kuat, berpotensi menjadi candle penentu tren.")>>
                     ELSE <<>>)
            ELSE IF props.is_bearish
            THEN (IF ratio_above(upper_ratio, 2, 10)
                  THEN <<Sentence("Implikasi: Menunjukkan tekanan jual kuat di harga tinggi, potensi kelanjutan turun.")>>
                  ELSE <<>>)
                 \o (IF ratio_above(lower_ratio, 2, 10)
                     THEN <<Sentence("Implikasi: Menunjukkan tekanan beli di harga rendah, potensi pelemahan momentum turun.")>>
                     ELSE <<>>)
                 \o (IF ratio_above(body_ratio, 6, 10)
                     THEN <<Sentence("Implikasi: Momentum bearish kuat, berpotensi menjadi candle penentu tren.")>>
                     ELSE <<>>)
            ELSE IF ratio_above(upper_ratio, 2, 10) /\ ratio_above(lower_ratio, 2, 10)
            THEN <<Sentence("Implikasi: Ketidakpastian tinggi, pasar menunggu arah. Potensi konsolidasi atau pembalikan.")>>
            ELSE IF ratio_below(body_ratio, 15, 100)
            THEN <<Sentence("Implikasi: Keraguan/konsolidasi. Pergerakan harga minimal, bisa jadi jeda sebelum pergerakan besar.")>>
            ELSE <<>>
        volume == Ratio(current_volume, 1)
        volume_info ==
            IF average_volume_prev_candles.num > 0
            THEN (IF volume_above_expected(current_volume, time_progress,
                                           average_volume_prev_candles)
                  THEN <<SentenceWith("Volume saat ini {}: **Tinggi** (lebih dari 20% dari volume rata-rata yang diharapkan). Menunjukkan minat besar.", volume)>>
                  ELSE IF volume_below_expected(current_volume, time_progress,
                                                average_volume_prev_candles)
                  THEN <<SentenceWith("Volume saat ini {}: **Rendah** (kurang dari 20% dari volume rata-rata yang diharapkan). Menunjukkan kurangnya minat.", volume)>>
                  ELSE <<SentenceWith("Volume saat ini {}: **Normal** (sesuai ekspektasi berdasarkan progres waktu).", volume)>>)
            ELSE <<SentenceWith("Volume saat ini: {} (tidak ada data volume rata-rata historis untuk perbandingan).", volume)>>
        progress_info ==
            IF float_less(float_quotient(time_progress), float_of(3, 10))
            THEN <<Sentence("Catatan: Candle masih di awal periode, bentuknya sangat fluktuatif.")>>
            ELSE IF float_less(float_of(7, 10), float_quotient(time_progress))
            THEN <<Sentence("Catatan: Candle mendekati penutupan, bentuknya lebih representatif.")>>
            ELSE <<>>
    IN IF candle_is_final(candle) THEN NoNarrative
       ELSE [potential_info |-> potential_info,
             process_info |-> process_info,
             implication_info |-> shape_info \o volume_info \o progress_info]

(* ------------------------------------------------------------------ *)
(* The REST history fetch (src/main.py:48-77)                          *)
(* ------------------------------------------------------------------ *)

\* one row of the server's JSON answer: c[0] .. c[6]
Row(t, o, h, l, c, v, T) == <<t, o, h, l, c, v, T>>

\* get_klines_rest on a received answer: each row becomes a candle dict, always
\* with is_final_bar True; an empty answer gives []
get_klines_rest(data) ==
    [k \in 1..Len(data) |->
        Candle(data[k][1], data[k][2], data[k][3], data[k][4], data[k][5],
               data[k][6], data[k][7], TRUE)]

\* min_candles_needed of the scan, which is also the length of a full answer here
min_candles_needed(tf) ==
    IF tf = "1d" /\ CANDLE_LIMIT[tf] >= 300 THEN 100
    ELSE IF tf \in {"1h", "4h"} /\ CANDLE_LIMIT[tf] >= 150 THEN 50
    ELSE 3

\* answers of the server: n flat bars, the newest opening at time last
FlatRows(n, last) ==
    [k \in 1..n |-> Row(last - n + k, BasePrice, BasePrice, BasePrice, BasePrice, 1,
                        last - n + k + 1)]

\* a flat answer whose bar before the newest has a price of zero
ZeroRows(n, last) ==
    [FlatRows(n, last) EXCEPT ![n - 1] = Row(last - 1, 0, 0, 0, 0, 1, last)]

\* a flat answer whose two newest rows carry the same open time
DupRows(n, last) ==
    [FlatRows(n, last) EXCEPT ![n - 1] = Row(last, BasePrice, BasePrice, BasePrice,
                                             BasePrice, 1, last + 1)]

\* what the server may answer at startup: a full history, nothing, and for the
\* daily timeframe also a history too short to analyse
StartupAnswers(tf) ==
    {FlatRows(min_candles_needed(tf), Now), <<>>}
        \cup (IF tf = "1d" THEN {FlatRows(2, Now)} ELSE {})

\* what the server may answer after a finalization: the history with the next
\* bar; for 1h also a stale copy and an answer with a zero price; for 4h also an
\* answer with a repeated row and an empty one
FetchAnswers(tf) ==
    {FlatRows(min_candles_needed(tf), Now + 1)}
        \cup (IF tf = "1h"
              THEN {FlatRows(min_candles_needed(tf), Now - 1),
                    ZeroRows(min_candles_needed(tf), Now + 1)}
              ELSE {})
        \cup (IF tf = "4h"
              THEN {DupRows(min_candles_needed(tf), Now + 1), <<>>}
              ELSE {})

\* the kline events the feed may deliver for one timeframe: the newest bar of
\* the startup history and the one after it, each open or closed
FeedCandles ==
    {Candle(t, BasePrice + 1, BasePrice + 1, BasePrice + 1, BasePrice + 1, 1, t + 1, x) :
        t \in Now..(Now + 1), x \in BOOLEAN}

(* ------------------------------------------------------------------ *)
(* State                                                               *)
(* ------------------------------------------------------------------ *)

VARIABLES
    _candle_data_cache,                \* [tf -> sequence of candles]
    _live_websocket_candle_data,       \* [tf -> candle or NoCandle]
    last_processed_final_candle_time,  \* [tf -> close_time or NoTime]
    data_cache_lock,                   \* who holds it between steps: "free", "main", "feed"
    main,                              \* the main thread: pc, loop index, scans started
    feed,                              \* the websocket thread inside on_message
    scans,                             \* every call of scan_all_intervals_and_notify
    processed,                         \* <<tf, close_time>> of each finalization processed
    pure                               \* a function of the program applied to an input

vars == <<_candle_data_cache, _live_websocket_candle_data,
          last_processed_final_candle_time, data_cache_lock, main, feed, scans,
          processed, pure>>

\* no function is being applied on its own
NoCall == [fn |-> "none", arg |-> <<>>, out |-> <<>>, returned |-> FALSE]

\* the state of the running program
program_vars == <<_candle_data_cache, _live_websocket_candle_data,
                  last_processed_final_candle_time, data_cache_lock, main, feed, scans,
                  processed>>

cache_vars == <<_candle_data_cache, _live_websocket_candle_data,
                last_processed_final_candle_time>>

\* module level, before __main__ runs (src/main.py:38-45)
Init ==
    /\ _candle_data_cache = [tf \in TFS |-> <<>>]
    /\ _live_websocket_candle_data = [tf \in TFS |-> NoCandle]
    /\ last_processed_final_candle_time = [tf \in TFS |-> NoTime]
    /\ data_cache_lock = "free"
    /\ main = [pc |-> "boot", idx |-> 1, nscans |-> 0]
    /\ feed = [pc |-> "idle", interval |-> "1h", n |-> 0]
    /\ scans = <<>>
    /\ processed = <<>>
    /\ pure = NoCall

(* ------------------------------------------------------------------ *)
(* The scan (src/main.py:620-814)                                      *)
(* ------------------------------------------------------------------ *)

\* `latest_candle and not latest_candle["is_final_bar"]` (line 641)
live_usable(live_c) == live_c /= NoCandle /\ ~live_c.is_final_bar

\* lines 643-648: the copy of the cached list with the live candle merged in
merge_live(cached, live_c) ==
    IF cached = <<>> \/ live_c.time > Last(cached).time
    THEN Append(cached, live_c)
    ELSE IF live_c.time = Last(cached).time
    THEN [cached EXCEPT ![Len(cached)] = live_c]
    ELSE cached

\* lines 638-658: current_candles_for_analysis, latest_candle and
\* is_live_candle_being_processed for one timeframe
merged_view(cached, live_c) ==
    IF live_usable(live_c)
    THEN [candles |-> merge_live(cached, live_c),
          latest_candle |-> live_c,
          is_live |-> TRUE]
    ELSE [candles |-> cached,
          latest_candle |-> IF cached /= <<>> THEN Last(cached) ELSE NoCandle,
          is_live |-> FALSE]

\* cache_after_merge without the copy: the merge acts on the cached list itself
cache_after_merge_in_place(cached, live_c) ==
    IF live_usable(live_c) THEN merge_live(cached, live_c) ELSE cached

\* what the merge leaves in _candle_data_cache[tf]: list(...) copies the cached
\* list, so append and item assignment act on the copy only
cache_after_merge(cached, live_c) == cached

\* lines 661-664: the timeframe is skipped, its final candle being reported already
already_notified(mv, lpf, tf, triggered_by_websocket_tf) ==
    /\ ~mv.is_live
    /\ mv.latest_candle /= NoCandle
    /\ mv.latest_candle.is_final_bar
    /\ lpf[tf] = mv.latest_candle.close_time
    /\ tf /= triggered_by_websocket_tf

\* lines 693-696 and 779-793: a ZeroDivisionError leaves the loop body
sr_raises(sr, current_price) ==
    \/ sr.raised
    \/ current_price = 0 /\ (sr.support /= <<>> \/ sr.resistance /= <<>>)

analysis_raises(candles, current_price) ==
    \/ detect_price_action_raises(candles)
    \/ detect_chart_patterns_raises(candles)
    \/ sr_raises(detect_auto_sr(candles), current_price)

\* lines 805-807: the candle is marked as processed
marks_processed(mv, tf, triggered_by_websocket_tf) ==
    ~mv.is_live /\ mv.latest_candle.is_final_bar /\ tf = triggered_by_websocket_tf

\* one pass of the loop body for INTERVALS[k]; st carries full_alert_message_parts,
\* current_price, last_processed_final_candle_time and whether an exception left
\* the loop
scan_tf(st, k, cache, live, triggered_by_websocket_tf) ==
    LET tf == INTERVALS[k]
        mv == merged_view(cache[tf], live[tf])
        n == Len(mv.candles)
        price == IF st.price_set THEN st.current_price ELSE mv.latest_candle.close
        \* lines 672-676
        average_volume_past == get_average_volume(mv.candles)
        time_progress_for_live_candle ==
            IF mv.is_live THEN get_time_progress(mv.latest_candle.time, tf) ELSE Ratio(0, 1)
        \* lines 721-722 and 736-738: the percentage shown after LIVE (Open), and
        \* the narrative, both "" unless the candle is the live one
        time_progress_info ==
            IF mv.is_live
            THEN <<float_int(float_mul(float_quotient(time_progress_for_live_candle),
                                       float_of_int(100)))>>
            ELSE <<>>
        live_candle_potential_info_msg ==
            IF mv.is_live
            THEN get_live_candle_potential_and_process(
                     mv.latest_candle, time_progress_for_live_candle, average_volume_past)
            ELSE NoNarrative
    IN IF already_notified(mv, st.lpf, tf, triggered_by_websocket_tf) THEN st
       ELSE IF mv.latest_candle = NoCandle
       THEN [st EXCEPT !.parts = Append(@, [tf |-> tf, kind |-> "no_data", n |-> 0,
                                            is_live |-> FALSE, candle |-> NoCandle,
                                            last_analysed |-> NoCandle,
                                            time_progress_info |-> <<>>,
                                            narrative |-> NoNarrative])]
       ELSE IF n < min_candles_needed(tf)
       THEN [st EXCEPT !.parts = Append(@, [tf |-> tf, kind |-> "not_enough", n |-> n,
                                            is_live |-> FALSE, candle |-> NoCandle,
                                            last_analysed |-> NoCandle,
                                            time_progress_info |-> <<>>,
                                            narrative |-> NoNarrative])]
       ELSE IF analysis_raises(mv.candles, price)
       THEN [st EXCEPT !.raised = TRUE, !.price_set = TRUE, !.current_price = price]
       ELSE [st EXCEPT
                !.price_set = TRUE,
                !.current_price = price,
                !.parts = Append(@, [tf |-> tf, kind |-> "full", n |-> n,
                                     is_live |-> mv.is_live,
                                     candle |-> mv.latest_candle,
                                     last_analysed |-> Last(mv.candles),
                                     time_progress_info |-> time_progress_info,
                                     narrative |-> live_candle_potential_info_msg]),
                !.lpf = IF marks_processed(mv, tf, triggered_by_websocket_tf)
                        THEN [@ EXCEPT ![tf] = mv.latest_candle.close_time]
                        ELSE @]

\* the for loop over INTERVALS from index k on; an exception ends it
RECURSIVE scan_loop(_, _, _, _, _)
scan_loop(st, k, cache, live, triggered_by_websocket_tf) ==
    IF k > Len(INTERVALS) \/ st.raised THEN st
    ELSE scan_loop(scan_tf(st, k, cache, live, triggered_by_websocket_tf),
                   k + 1, cache, live, triggered_by_websocket_tf)

\* the locked block of scan_all_intervals_and_notify (lines 635-807)
scan_locked(cache, live, lpf, triggered_by_websocket_tf) ==
    scan_loop([parts |-> <<>>, price_set |-> FALSE, current_price |-> 0,
               lpf |-> lpf, raised |-> FALSE],
              1, cache, live, triggered_by_websocket_tf)

(* ------------------------------------------------------------------ *)
(* The main thread (src/main.py:915-954)                               *)
(* ------------------------------------------------------------------ *)

\* line 923: with data_cache_lock
StartupAcquire ==
    /\ main.pc = "boot"
    /\ data_cache_lock = "free"
    /\ data_cache_lock' = "main"
    /\ main' = [main EXCEPT !.pc = "loading"]
    /\ UNCHANGED <<cache_vars, feed, scans, processed>>
    /\ UNCHANGED pure

\* lines 924-930: one pass of the loading loop with a non-empty answer; after the
\* last timeframe the lock is released and the websocket thread is started
StartupLoad ==
    /\ main.pc = "loading"
    /\ \E data \in StartupAnswers(INTERVALS[main.idx]) :
        LET tf == INTERVALS[main.idx]
            initial_candles == get_klines_rest(data)
        IN /\ initial_candles /= <<>>
           /\ _candle_data_cache' = [_candle_data_cache EXCEPT ![tf] = initial_candles]
           /\ last_processed_final_candle_time' =
                 [last_processed_final_candle_time EXCEPT
                     ![tf] = Last(initial_candles).close_time]
    /\ IF main.idx = Len(INTERVALS)
       THEN /\ main' = [main EXCEPT !.pc = "idle"]
            /\ data_cache_lock' = "free"
       ELSE /\ main' = [main EXCEPT !.idx = @ + 1]
            /\ UNCHANGED data_cache_lock
    /\ UNCHANGED <<_live_websocket_candle_data, feed, scans, processed>>
    /\ UNCHANGED pure

\* lines 931-936: an empty answer, or get_klines_rest raising after its retries,
\* ends the program with exit(1)
StartupExit ==
    /\ main.pc = "loading"
    /\ main' = [main EXCEPT !.pc = "exited"]
    /\ data_cache_lock' = "free"
    /\ UNCHANGED <<cache_vars, feed, scans, processed>>
    /\ UNCHANGED pure

\* lines 948 and 951-954: the main thread calls scan_all_intervals_and_notify()
MainScan ==
    /\ main.pc = "idle"
    /\ main.nscans < 1 + MaxTimerScans
    /\ main' = [main EXCEPT !.pc = "scanning", !.nscans = @ + 1]
    /\ scans' = Append(scans, [trig |-> "none", by |-> "main", pc |-> "ready",
                               parts |-> <<>>, torn |-> FALSE])
    /\ UNCHANGED <<cache_vars, data_cache_lock, feed, processed>>
    /\ UNCHANGED pure

(* ------------------------------------------------------------------ *)
(* scan_all_intervals_and_notify as run by a thread                    *)
(* ------------------------------------------------------------------ *)

\* lock_free_for_scan of a scan that does not take the lock
lock_ignored_by_scan == TRUE

\* line 635: with data_cache_lock is entered once nobody holds the lock
lock_free_for_scan == data_cache_lock = "free"

\* the process runs, from the start of the websocket thread on (lines 940-942):
\* that thread is a daemon, and the scan threads on_message starts (line 883)
\* are daemons as well, a thread being a daemon when the thread that created it
\* is one. When the main thread has left by an exception the interpreter
\* reports it and shuts down; the daemons go on running until the shutdown
\* ends the process, which no step of theirs can hold back
process_alive == main.pc \in {"idle", "scanning", "crashed"}

\* the main thread after its call returned (it sleeps) or raised (it ends)
main_after(i, how) ==
    IF scans[i].by = "main"
    THEN [main EXCEPT !.pc = IF how = "raised" THEN "crashed" ELSE "idle"]
    ELSE main

\* lines 635-807: the lock is taken, the loop over INTERVALS runs under it, and
\* the lock is released when the with block is left, by its end or by an
\* exception; no other thread can act on the caches in between
scan_leaves(i, st, next_pc) ==
    /\ last_processed_final_candle_time' = st.lpf
    /\ _candle_data_cache' =
          [tf \in TFS |-> cache_after_merge(_candle_data_cache[tf],
                                            _live_websocket_candle_data[tf])]
    /\ scans' = [scans EXCEPT ![i].pc = next_pc,
                              ![i].parts = IF st.raised THEN <<>> ELSE st.parts,
                              ![i].torn = (feed.pc = "fetching")]
    /\ main' = IF next_pc = "sending" THEN main ELSE main_after(i, next_pc)

\* how the locked block is left with the loop state st
scan_next_pc(st) ==
    IF st.raised THEN "raised" ELSE IF st.parts /= <<>> THEN "sending" ELSE "done"

scan_ends(i, st) == scan_leaves(i, st, scan_next_pc(st))

ScanLocked(i) ==
    /\ process_alive
    /\ scans[i].pc = "ready"
    /\ lock_free_for_scan
    /\ \E st \in {scan_locked(_candle_data_cache, _live_websocket_candle_data,
                               last_processed_final_candle_time, scans[i].trig)} :
          scan_ends(i, st)
    /\ UNCHANGED <<_live_websocket_candle_data, data_cache_lock, feed, processed>>
    /\ UNCHANGED pure

\* lines 809-812: send_discord_alert, which catches its own request errors
ScanSend(i) ==
    /\ process_alive
    /\ scans[i].pc = "sending"
    /\ scans' = [scans EXCEPT ![i].pc = "done"]
    /\ main' = main_after(i, "done")
    /\ UNCHANGED <<cache_vars, data_cache_lock, feed, processed>>
    /\ UNCHANGED pure

\* lines 948 and 951-953: the exception of a scan of the main thread is caught
\* nowhere; the interpreter shuts down and the process ends with the daemon
\* threads wherever they are: a scan waiting for the lock or sending, a fetch
\* under the lock
ProcessEnds ==
    /\ main.pc = "crashed"
    /\ main' = [main EXCEPT !.pc = "ended"]
    /\ UNCHANGED <<cache_vars, data_cache_lock, feed, scans, processed>>
    /\ UNCHANGED pure

(* ------------------------------------------------------------------ *)
(* The websocket thread: on_message (src/main.py:852-892)              *)
(* ------------------------------------------------------------------ *)

\* lines 876-877: the finalization has not been processed before
is_new_final(lpf_tf, candle) ==
    lpf_tf = NoTime \/ candle.close_time > lpf_tf

\* what on_message stores in the live slot (line 872)
live_after_message(old, candle) == candle

\* lines 871-887 up to the fetch: the candle is stored in the live slot; a new
\* final candle starts the fetch of line 881, any other candle ends the handler
OnMessage(interval, current_candle) ==
    /\ process_alive
    /\ feed.pc = "idle"
    /\ feed.n < MaxMsgs
    /\ data_cache_lock = "free"
    /\ _live_websocket_candle_data' =
          [_live_websocket_candle_data EXCEPT
              ![interval] = live_after_message(@, current_candle)]
    /\ IF /\ current_candle.is_final_bar
          /\ is_new_final(last_processed_final_candle_time[interval], current_candle)
       THEN \* line 881 is entered: the fetch runs with the lock held
            /\ data_cache_lock' = "feed"
            /\ feed' = [pc |-> "fetching", interval |-> interval, n |-> feed.n + 1]
            /\ processed' = Append(processed, <<interval, current_candle.close_time>>)
       ELSE /\ UNCHANGED data_cache_lock
            /\ feed' = [pc |-> "idle", interval |-> interval, n |-> feed.n + 1]
            /\ UNCHANGED processed
    /\ UNCHANGED <<_candle_data_cache, last_processed_final_candle_time, main,
                   scans>>
    /\ UNCHANGED pure

\* what on_message stores for a fetched history (line 881)
cache_after_fetch(old, fetched) == fetched

\* the with block of line 871 is left, by its end or by an exception: the lock
\* is released
lock_after_with == "free"

\* lines 881-883: get_klines_rest returned; the history is stored, the scan
\* thread is started and the lock is released
FetchReturn ==
    /\ process_alive
    /\ feed.pc = "fetching"
    /\ \E data \in FetchAnswers(feed.interval) :
        _candle_data_cache' =
            [_candle_data_cache EXCEPT
                ![feed.interval] = cache_after_fetch(@, get_klines_rest(data))]
    /\ scans' = Append(scans, [trig |-> feed.interval, by |-> "thread", pc |-> "ready",
                               parts |-> <<>>, torn |-> FALSE])
    /\ feed' = [feed EXCEPT !.pc = "idle"]
    /\ data_cache_lock' = lock_after_with
    /\ UNCHANGED <<_live_websocket_candle_data, last_processed_final_candle_time,
                   main, processed>>
    /\ UNCHANGED pure

\* line 881: get_klines_rest raised after its 5 attempts; the exception leaves
\* the with block and on_message
FetchRaise ==
    /\ process_alive
    /\ feed.pc = "fetching"
    /\ feed' = [feed EXCEPT !.pc = "idle"]
    /\ data_cache_lock' = lock_after_with
    /\ UNCHANGED <<cache_vars, main, scans, processed>>
    /\ UNCHANGED pure

Next ==
    \/ StartupAcquire
    \/ StartupLoad
    \/ StartupExit
    \/ MainScan
    \/ \E i \in 1..Len(scans) : ScanLocked(i)
    \/ \E i \in 1..Len(scans) : ScanSend(i)
    \/ \E tf \in TFS : \E c \in FeedCandles : OnMessage(tf, c)
    \/ FetchReturn
    \/ FetchRaise
    \/ ProcessEnds

Spec == Init /\ [][Next]_vars

(* ------------------------------------------------------------------ *)
(* Fair scheduling of the threads                                      *)
(* ------------------------------------------------------------------ *)

\* the calls of scan_all_intervals_and_notify a behaviour can hold: those of the
\* main thread and one per processed finalization
MaxScans == 1 + MaxTimerScans + MaxMsgs

\* scan i waits at line 635, nobody holds the lock and the process runs
ScanCanLock(i) ==
    i \in 1..Len(scans) /\ process_alive /\ scans[i].pc = "ready" /\ lock_free_for_scan

\* the thread of scan i runs its locked block: the step ScanLocked(i), told by
\* the position the thread leaves
ScanThreadLocks(i) ==
    i \in 1..Len(scans) /\ scans[i].pc = "ready" /\ scans'[i].pc /= "ready"

\* the thread of scan i sends its report
ScanThreadSends(i) == i \in 1..Len(scans) /\ ScanSend(i)

\* get_klines_rest returns or raises: requests.get has a timeout of 10 s and the
\* retry stops after 5 attempts
FetchEnds == FetchReturn \/ FetchRaise

\* the loading loop of the main thread goes on
StartupGoesOn == StartupLoad \/ StartupExit

\* every thread that can take a step eventually takes it, and a thread waiting
\* for data_cache_lock gets it when the lock is free again and again (strong
\* fairness of ScanLocked(i), written out: ScanLocked(i) is enabled exactly when
\* ScanCanLock(i) holds); the websocket delivers a message or not as it likes.
\* The shutdown after an exception of the main thread waits for no daemon
\* thread, so it ends the process whatever the threads do meanwhile
FairSpec ==
    /\ Spec
    /\ WF_vars(StartupGoesOn)
    /\ WF_vars(FetchEnds)
    /\ WF_vars(ProcessEnds)
    /\ \A i \in 1..MaxScans :
          /\ <>[]~ScanCanLock(i) \/ []<><<ScanThreadLocks(i)>>_vars
          /\ WF_vars(ScanThreadSends(i))

(* ------------------------------------------------------------------ *)
(* Properties                                                          *)
(* ------------------------------------------------------------------ *)

\* the full entries of the report of scan i
FullParts(i) ==
    {scans[i].parts[k] : k \in {k \in 1..Len(scans[i].parts) : scans[i].parts[k].kind = "full"}}

\* scan i has left its locked block
Scanned(i) == scans[i].pc \in {"sending", "done", "raised"}

\* C1: at-most-once finalization: no finalizing bar (same timeframe, same
\* close_time) is processed twice, that is, fetched for and followed by a
\* triggered scan a second time.
C1_AtMostOnceFinalization ==
    \A i, j \in 1..Len(processed) : i /= j => processed[i] /= processed[j]

\* C2: last_processed_final_candle_time[tf] never decreases.
C2_LastProcessedNeverDecreases ==
    [][\A tf \in TFS : last_processed_final_candle_time'[tf]
                          >= last_processed_final_candle_time[tf]]_vars

\* on_message is called with a final candle that is not newer than the stored time
StaleFinalDelivered(tf, c) ==
    /\ OnMessage(tf, c)
    /\ c.is_final_bar
    /\ last_processed_final_candle_time[tf] /= NoTime
    /\ c.close_time <= last_processed_final_candle_time[tf]

\* C3: a finalizing update that is not newer than the stored time
\* changes none of the cached history, the live slot and the stored time.
C3_StaleFinalIsNoOp ==
    [][\A tf \in TFS : \A c \in FeedCandles :
          StaleFinalDelivered(tf, c) =>
              /\ _candle_data_cache'[tf] = _candle_data_cache[tf]
              /\ _live_websocket_candle_data'[tf] = _live_websocket_candle_data[tf]
              /\ last_processed_final_candle_time'[tf]
                    = last_processed_final_candle_time[tf]]_vars

\* C4: the live slot is empty or holds a candle with is_final_bar false.
C4_LiveSlotNeverFinal ==
    \A tf \in TFS :
        \/ _live_websocket_candle_data[tf] = NoCandle
        \/ ~_live_websocket_candle_data[tf].is_final_bar

\* no two candles of the sequence have the same open time
UniqueTimes(candles) ==
    \A a, b \in 1..Len(candles) : a /= b => candles[a].time /= candles[b].time

\* C5: the merged sequence a scan builds is the cached history with a later live
\* candle appended or a same-time last candle replaced, and it never contains two
\* candles with the same open time.
C5_MergeRule ==
    \A tf \in TFS :
        LET cached == _candle_data_cache[tf]
            live_c == _live_websocket_candle_data[tf]
            merged == merged_view(cached, live_c).candles
        IN /\ UniqueTimes(merged)
           /\ IF live_c = NoCandle \/ live_c.is_final_bar THEN merged = cached
              ELSE IF cached = <<>> THEN merged = <<live_c>>
              ELSE IF live_c.time > Last(cached).time THEN merged = cached \o <<live_c>>
              ELSE IF live_c.time = Last(cached).time
              THEN merged = SubSeq(cached, 1, Len(cached) - 1) \o <<live_c>>
              ELSE merged = cached

\* C6: the locked block of a scan leaves every cached history and every live
\* slot as it found them.
C6_ScanIsReadOnly ==
    [][\A i \in 1..Len(scans) :
          ScanLocked(i) =>
              /\ _candle_data_cache' = _candle_data_cache
              /\ _live_websocket_candle_data' = _live_websocket_candle_data]_vars

\* a scan analysed one timeframe with the live candle appended to its history
\* and another with the live candle in place of the last cached candle
C6_Witness ==
    \E i \in 1..Len(scans) : \E p, q \in FullParts(i) :
        /\ p.is_live /\ q.is_live
        /\ _live_websocket_candle_data[p.tf] = p.candle
        /\ _live_websocket_candle_data[q.tf] = q.candle
        /\ p.n = Len(_candle_data_cache[p.tf]) + 1
        /\ q.n = Len(_candle_data_cache[q.tf])
        /\ q.candle.time = Last(_candle_data_cache[q.tf]).time

\* C7: no scan reads the caches while on_message is between storing the
\* finalized candle in the live slot and replacing the cached history.
C7_ConsistentSnapshot ==
    \A i \in 1..Len(scans) : ~scans[i].torn

\* a triggered scan has read the caches after its finalization was processed,
\* while on_message is inside the next finalization
C7_Witness ==
    /\ feed.pc = "fetching"
    /\ \E i \in 1..Len(scans) : scans[i].trig /= "none" /\ Scanned(i)
    /\ \E i \in 1..Len(scans) : scans[i].pc = "ready"

\* C8: the lock is never held while a history fetch or a report delivery runs.
C8_NoNetworkUnderLock ==
    /\ ~(data_cache_lock = "feed" /\ feed.pc = "fetching")
    /\ ~(data_cache_lock = "main" /\ main.pc = "loading")

\* C9: a detector that raises does not end the scan: no scan is left by an
\* exception, losing the entries of the other timeframes.
C9_FailureIsolation ==
    \A i \in 1..Len(scans) : scans[i].pc /= "raised"

\* the candles are final and strictly ascending in open time
ValidBarSequence(candles) ==
    /\ \A k \in 1..Len(candles) : candles[k].is_final_bar
    /\ \A k \in 1..(Len(candles) - 1) : candles[k].time < candles[k + 1].time

\* C10: a fetched history that is not strictly ascending, or holds a candle that
\* is not final, is rejected: every cached history is a valid bar sequence.
C10_InvalidHistoryRejected ==
    \A tf \in TFS : ValidBarSequence(_candle_data_cache[tf])

\* C11: every scan that has left its locked block holds a report entry (full, no
\* data, or not enough data) for every configured timeframe.
C11_EveryTimeframeReported ==
    \A i \in 1..Len(scans) :
        Scanned(i) =>
            \A tf \in TFS : \E k \in 1..Len(scans[i].parts) : scans[i].parts[k].tf = tf

(* ------------------------------------------------------------------ *)
(* The functions of the program applied on their own                   *)
(* ------------------------------------------------------------------ *)

\* a bar of a view given to a detector; the detectors read no time
Bar(o, h, l, c) == Candle(0, o, h, l, c, 1, 1, TRUE)

\* the sequences of at most n elements of S
SeqsUpTo(S, n) == UNION {[1..k -> S] : k \in 0..n}

\* a call of fn that has not returned yet; arg is the record of its arguments
Call(fn, arg) == [fn |-> fn, arg |-> arg, out |-> <<>>, returned |-> FALSE]

\* the call of fn has returned
Returned(fn) == pure.fn = fn /\ pure.returned

\* bars for the swing points: a peak, a valley and a bar between them
SwingBars == {Bar(10, 12, 10, 12), Bar(9, 9, 8, 8), Bar(10, 10, 9, 9)}

\* bars at the edge of the threshold 0.003: 1003 is 1000 * 1.003 and 997 is
\* 1000 * 0.997
EdgeBars == {Bar(1000, 1000, 1000, 1000), Bar(1000, 1003, 1000, 1000),
             Bar(1000, 1000, 997, 997)}

\* get_significant_swing_points(candles, window, 0.2) on every view of at most
\* MaxViewLen bars, window 1 and 2, and get_significant_swing_points(candles, 1,
\* 0.003) on the views of three bars at the edge of that threshold
SwingCalls ==
    {Call("get_significant_swing_points",
          [candles |-> v, window |-> w, num |-> 1, den |-> 5]) :
        v \in SeqsUpTo(SwingBars, MaxViewLen), w \in 1..MaxWindow}
    \cup {Call("get_significant_swing_points",
               [candles |-> v, window |-> 1, num |-> 3, den |-> 1000]) :
             v \in [1..3 -> EdgeBars]}

Call_get_significant_swing_points ==
    /\ pure.fn = "get_significant_swing_points" /\ ~pure.returned
    /\ pure' = [pure EXCEPT
                   !.out = get_significant_swing_points(pure.arg.candles, pure.arg.window,
                                                        pure.arg.num, pure.arg.den),
                   !.returned = TRUE]
    /\ UNCHANGED program_vars

\* get_candle_properties(c) on every bar with prices in 0..MaxPrice, the bars
\* that break low <= open, close <= high included
PropertyCalls ==
    {Call("get_candle_properties", [c |-> Bar(o, h, l, c)]) :
        o \in 0..MaxPrice, h \in 0..MaxPrice, l \in 0..MaxPrice, c \in 0..MaxPrice}

Call_get_candle_properties ==
    /\ pure.fn = "get_candle_properties" /\ ~pure.returned
    /\ pure' = [pure EXCEPT !.out = get_candle_properties(pure.arg.c), !.returned = TRUE]
    /\ UNCHANGED program_vars

\* a view of n bars for detect_double_top_bottom: bars of low 192 and high 196,
\* a peak of high 200 at index 22 and one of high h2 at index p2, a valley of low
\* 190 two bars before the second peak when has_valley, a bar of low 0 at index
\* 20 when early_zero, and a last bar that closes at last_close
DoubleTopView(n, p2, h2, has_valley, early_zero, last_close) ==
    [k \in 1..n |->
        LET i == k - 1
        IN IF i = n - 1 THEN Bar(192, 196, Min2(192, last_close), last_close)
           ELSE IF i = 22 THEN Bar(192, 200, 192, 192)
           ELSE IF i = p2 THEN Bar(192, h2, 192, 192)
           ELSE IF i = p2 - 2 /\ has_valley THEN Bar(192, 196, 190, 192)
           ELSE IF i = 20 /\ early_zero THEN Bar(192, 196, 0, 192)
           ELSE Bar(192, 196, 192, 192)]

\* detect_double_top_bottom(candles) on views of 69 and 70 bars whose peaks are
\* 5, 6, 10 and 24 bars apart
DoubleTopCalls ==
    {Call("detect_double_top_bottom", [candles |-> DoubleTopView(n, p2, h2, v, z, c)]) :
        n \in {69, 70}, p2 \in {27, 28, 32, 46}, h2 \in {197, 198, 200},
        v \in BOOLEAN, z \in BOOLEAN, c \in {186, 188, 189}}

Call_detect_double_top_bottom ==
    /\ pure.fn = "detect_double_top_bottom" /\ ~pure.returned
    /\ pure' = [pure EXCEPT !.out = detect_double_top_bottom(pure.arg.candles), !.returned = TRUE]
    /\ UNCHANGED program_vars

\* a view of n bars for detect_bos_choch: bars of low 996 and high 1004, peaks of
\* high h1 at index 10 and h2 at index 21, valleys of low l1 at index 15 and l2
\* at index 26, and a last bar that closes at last_close
StructureView(n, h1, h2, l1, l2, last_close) ==
    [k \in 1..n |->
        LET i == k - 1
        IN IF i = n - 1
           THEN Bar(1000, Max2(1004, last_close), Min2(996, last_close), last_close)
           ELSE IF i = 10 THEN Bar(1000, h1, 996, 1000)
           ELSE IF i = 21 THEN Bar(1000, h2, 996, 1000)
           ELSE IF i = 15 THEN Bar(1000, 1004, l1, 1000)
           ELSE IF i = 26 THEN Bar(1000, 1004, l2, 1000)
           ELSE Bar(1000, 1004, 996, 1000)]

\* detect_bos_choch(candles) on views of 29 and 38 bars with higher, equal and
\* lower highs and lows, the last close below the last valley, between it and
\* the last peak, or above the last peak
StructureCalls ==
    {Call("detect_bos_choch", [candles |-> StructureView(n, h1, h2, l1, l2, c)]) :
        n \in {29, 38}, h1 \in {1020, 1040}, h2 \in {1020, 1040},
        l1 \in {960, 980}, l2 \in {960, 980}, c \in {959, 979, 1000, 1021, 1041}}

Call_detect_bos_choch ==
    /\ pure.fn = "detect_bos_choch" /\ ~pure.returned
    /\ pure' = [pure EXCEPT !.out = detect_bos_choch(pure.arg.candles), !.returned = TRUE]
    /\ UNCHANGED program_vars

\* a view of n bars for detect_auto_sr: bars of low 2985 and high 2990, peaks of
\* high p1, p2, p3 at indices 15, 31 and 47, and a last bar that closes at
\* last_close
LevelView(n, p1, p2, p3, last_close) ==
    [k \in 1..n |->
        LET i == k - 1
        IN IF i = n - 1
           THEN Bar(2988, Max2(2990, last_close), Min2(2985, last_close), last_close)
           ELSE IF i = 15 THEN Bar(2988, p1, 2985, 2988)
           ELSE IF i = 31 THEN Bar(2988, p2, 2985, 2988)
           ELSE IF i = 47 THEN Bar(2988, p3, 2985, 2988)
           ELSE Bar(2988, 2990, 2985, 2988)]

\* detect_auto_sr(candles) on views of 49 and 64 bars whose peaks lie within
\* 0.1% of each other or further apart, the last close below, between and above
\* the levels
LevelCalls ==
    {Call("detect_auto_sr", [candles |-> LevelView(n, p1, p2, p3, c)]) :
        n \in {49, 64}, p1 \in {3000, 3001, 3004}, p2 \in {3000, 3001, 3004},
        p3 \in {3000, 3001, 3004}, c \in {2980, 2988, 3000, 3001, 3010}}

Call_detect_auto_sr ==
    /\ pure.fn = "detect_auto_sr" /\ ~pure.returned
    /\ pure' = [pure EXCEPT !.out = detect_auto_sr(pure.arg.candles), !.returned = TRUE]
    /\ UNCHANGED program_vars

\* a view of n bars for get_trend_direction: the last bar closes at c, the 9
\* bars before it at b and every older bar at a
TrendView(n, a, b, c) ==
    [k \in 1..n |->
        IF k = n THEN Bar(c, c, c, c)
        ELSE IF k >= n - 9 THEN Bar(b, b, b, b)
        ELSE Bar(a, a, a, a)]

\* the lengths of the views: none, one short of the lookback, the lookback, one
\* more, and twice the lookback
TrendLengths == {0, 9, 10, 11, 20}

\* get_trend_direction(candles) on views of these lengths
TrendCalls ==
    {Call("get_trend_direction", [candles |-> TrendView(n, a, b, c)]) :
        n \in TrendLengths, a \in 1..MaxPrice, b \in 1..MaxPrice, c \in 1..MaxPrice}

Call_get_trend_direction ==
    /\ pure.fn = "get_trend_direction" /\ ~pure.returned
    /\ pure' = [pure EXCEPT !.out = <<get_trend_direction(pure.arg.candles)>>,
                            !.returned = TRUE]
    /\ UNCHANGED program_vars

\* the merged bars of one timeframe for get_multi_tf_confirmations: none, 4 or 5
\* bars, and 10 bars in "Uptrend", "Downtrend" and "Sideways"
ConfirmationViews ==
    {<<>>, TrendView(4, 1, 1, 2), TrendView(5, 1, 1, 2), TrendView(10, 1, 1, 2),
     TrendView(10, 1, 2, 1), TrendView(10, 1, 1, 1)}

\* the patterns of the current timeframe: none, a bullish one, a bearish one
ConfirmationPatterns == {<<>>, <<"Bullish Engulfing">>, <<"Double Top">>}

\* get_multi_tf_confirmations(current_tf_patterns, all_tf_data, current_tf_name)
ConfirmationCalls ==
    {Call("get_multi_tf_confirmations",
          [current_tf_patterns |-> p, all_tf_data |-> d, current_tf_name |-> tf]) :
        p \in ConfirmationPatterns, d \in [TFS -> ConfirmationViews], tf \in TFS}

Call_get_multi_tf_confirmations ==
    /\ pure.fn = "get_multi_tf_confirmations" /\ ~pure.returned
    /\ pure' = [pure EXCEPT
                   !.out = get_multi_tf_confirmations(pure.arg.current_tf_patterns,
                                                      pure.arg.all_tf_data,
                                                      pure.arg.current_tf_name),
                   !.returned = TRUE]
    /\ UNCHANGED program_vars

\* the prices of the bars of the engulfing scenario (100 -> 95, then 94 -> 101)
EngulfPrices == {94, 95, 100, 101}

\* bars that open and close at these prices, with the low at the given price
EngulfBars(lows) ==
    {Bar(o, Max2(o, c), l, c) : o \in EngulfPrices, c \in EngulfPrices, l \in lows}

\* is_bullish_engulfing(c1, c2) on two such bars
EngulfingCalls ==
    {Call("is_bullish_engulfing", [c1 |-> a, c2 |-> b]) :
        a \in EngulfBars({0, 94}), b \in EngulfBars({94})}

Call_is_bullish_engulfing ==
    /\ pure.fn = "is_bullish_engulfing" /\ ~pure.returned
    /\ pure' = [pure EXCEPT
                   !.out = <<is_bullish_engulfing(pure.arg.c1, pure.arg.c2, FALSE)>>,
                   !.returned = TRUE]
    /\ UNCHANGED program_vars

\* a view of n bars that ends with the bars c2 and c3
PriceActionView(n, c2, c3) ==
    [k \in 1..n |-> IF k = n THEN c3 ELSE IF k = n - 1 THEN c2 ELSE Bar(100, 101, 99, 100)]

\* detect_price_action(candles) on views of 2 and 3 bars
PriceActionCalls ==
    {Call("detect_price_action", [candles |-> PriceActionView(n, a, b)]) :
        n \in {2, 3}, a \in EngulfBars({0, 94}), b \in EngulfBars({94})}

Call_detect_price_action ==
    /\ pure.fn = "detect_price_action" /\ ~pure.returned
    /\ pure' = [pure EXCEPT !.out = detect_price_action(pure.arg.candles, FALSE),
                            !.returned = TRUE]
    /\ UNCHANGED program_vars

\* a view of n bars for detect_head_and_shoulders: bars of low base - 3 and high
\* base + 3 with extremes at indices 20, 45 and 70 (head in the middle) and
\* opposite extremes at 32 and 57; inverse turns the peaks into valleys; the
\* last bar closes at last_close
ShouldersView(n, base, inverse, head, last_close) ==
    [k \in 1..n |->
        LET i == k - 1
        IN IF i = n - 1
           THEN Bar(base, Max2(base + 3, last_close), Min2(base - 3, last_close), last_close)
           ELSE IF i \in {20, 70}
           THEN (IF inverse THEN Bar(base, base + 3, base - 20, base)
                 ELSE Bar(base, base + 20, base - 3, base))
           ELSE IF i = 45
           THEN (IF inverse THEN Bar(base, base + 3, base - head, base)
                 ELSE Bar(base, base + head, base - 3, base))
           ELSE IF i \in {32, 57}
           THEN (IF inverse THEN Bar(base, base + 20, base - 3, base)
                 ELSE Bar(base, base + 3, base - 20, base))
           ELSE Bar(base, base + 3, base - 3, base)]

\* the chart-pattern part of one pass of the scan loop on views of 99 and 100
\* bars with a head 25 or 40 beyond the base, the last close below, inside and
\* above the necklines; on views whose neckline is 1200, the last close at
\* 1200 * 1.005 and next to it, and on views of 70 bars with two peaks
ChartPatternCalls ==
    {Call("cp_descriptions", [candles |-> ShouldersView(n, 1000, inv, head, c)]) :
        n \in {99, 100}, inv \in BOOLEAN, head \in {25, 40}, c \in {970, 1000, 1030}}
    \cup {Call("cp_descriptions", [candles |-> ShouldersView(100, 1180, TRUE, 40, c)]) :
            c \in {1205, 1206, 1207}}
    \cup {Call("cp_descriptions", [candles |-> DoubleTopView(70, 46, h2, TRUE, FALSE, c)]) :
            h2 \in {198, 200}, c \in {186, 189}}

\* lines 694 and 759-772: cp_patterns and the descriptions the entry shows
described_patterns(cp) ==
    [raised |-> cp.raised,
     cp_patterns |-> cp.patterns,
     cp_descriptions |-> cp_descriptions(cp.patterns)]

Call_cp_descriptions ==
    /\ pure.fn = "cp_descriptions" /\ ~pure.returned
    /\ pure' = [pure EXCEPT
                   !.out = described_patterns(detect_chart_patterns(pure.arg.candles)),
                   !.returned = TRUE]
    /\ UNCHANGED program_vars

\* the calls a behaviour may start from
Calls == SwingCalls \cup PropertyCalls \cup DoubleTopCalls \cup StructureCalls
             \cup LevelCalls \cup TrendCalls \cup ConfirmationCalls
             \cup EngulfingCalls \cup PriceActionCalls \cup ChartPatternCalls

\* the program has not started; one call is about to be made
CallInit ==
    /\ _candle_data_cache = [tf \in TFS |-> <<>>]
    /\ _live_websocket_candle_data = [tf \in TFS |-> NoCandle]
    /\ last_processed_final_candle_time = [tf \in TFS |-> NoTime]
    /\ data_cache_lock = "free"
    /\ main = [pc |-> "boot", idx |-> 1, nscans |-> 0]
    /\ feed = [pc |-> "idle", interval |-> "1h", n |-> 0]
    /\ scans = <<>>
    /\ processed = <<>>
    /\ pure \in Calls

CallNext ==
    \/ Call_get_significant_swing_points
    \/ Call_get_candle_properties
    \/ Call_detect_double_top_bottom
    \/ Call_detect_bos_choch
    \/ Call_detect_auto_sr
    \/ Call_get_trend_direction
    \/ Call_get_multi_tf_confirmations
    \/ Call_is_bullish_engulfing
    \/ Call_detect_price_action
    \/ Call_cp_descriptions

CallSpec == CallInit /\ [][CallNext]_vars

(* ------------------------------------------------------------------ *)
(* get_candle_properties applied to prices read from decimal strings   *)
(* ------------------------------------------------------------------ *)

\* the numerators of the prices: 0, small numbers and numbers of four and five
\* digits
DecimalPrices == {0, 1, 3, 8, 2999, 64317}

\* their denominators: whole prices, tenths, and prices of four and of eight
\* decimal places as the exchange sends them ("0.0001", "0.00000003",
\* "643.17000000")
DecimalUnits == {1, 10, 10000, 100000000}

\* the candle with the prices float("o/den"), float("h/den"), float("l/den") and
\* float("c/den")
DecimalBar(o, h, l, c, den) ==
    [open |-> float_of(o, den), high |-> float_of(h, den),
     low |-> float_of(l, den), close |-> float_of(c, den)]

\* get_candle_properties(c) on every bar with these prices, the bars that break
\* low <= open, close <= high included
DecimalCalls ==
    {Call("get_candle_properties_of_floats", [o |-> o, h |-> h, l |-> l, c |-> c, den |-> den]) :
        o \in DecimalPrices, h \in DecimalPrices, l \in DecimalPrices,
        c \in DecimalPrices, den \in DecimalUnits}

Call_get_candle_properties_of_floats ==
    /\ pure.fn = "get_candle_properties_of_floats" /\ ~pure.returned
    /\ pure' = [pure EXCEPT
                   !.out = get_candle_properties_of_floats(
                               DecimalBar(pure.arg.o, pure.arg.h, pure.arg.l,
                                          pure.arg.c, pure.arg.den)),
                   !.returned = TRUE]
    /\ UNCHANGED program_vars

\* the program has not started; one call is about to be made
DecimalInit ==
    /\ _candle_data_cache = [tf \in TFS |-> <<>>]
    /\ _live_websocket_candle_data = [tf \in TFS |-> NoCandle]
    /\ last_processed_final_candle_time = [tf \in TFS |-> NoTime]
    /\ data_cache_lock = "free"
    /\ main = [pc |-> "boot", idx |-> 1, nscans |-> 0]
    /\ feed = [pc |-> "idle", interval |-> "1h", n |-> 0]
    /\ scans = <<>>
    /\ processed = <<>>
    /\ pure \in DecimalCalls

DecimalNext == Call_get_candle_properties_of_floats

DecimalSpec == DecimalInit /\ [][DecimalNext]_vars

(* ------------------------------------------------------------------ *)
(* Properties of the functions                                         *)
(* ------------------------------------------------------------------ *)

\* the indices of a list of swing points
SwingIndices(points) == {points[k][1] : k \in 1..Len(points)}

\* the indices are in the interior of the view and strictly ascending
SwingListInRange(points, n, window) ==
    /\ \A k \in 1..Len(points) : window <= points[k][1] /\ points[k][1] <= n - window - 1
    /\ \A k \in 1..(Len(points) - 1) : points[k][1] < points[k + 1][1]

\* C12: every index get_significant_swing_points returns lies in
\* [window, len(view) - window - 1], each list is in strictly ascending index
\* order, and both lists are empty when len(view) < 2 * window + 1.
C12_SwingIndicesInRange ==
    Returned("get_significant_swing_points") =>
        LET n == Len(pure.arg.candles)
            window == pure.arg.window
        IN /\ SwingListInRange(pure.out.highs, n, window)
           /\ SwingListInRange(pure.out.lows, n, window)
           /\ n < 2 * window + 1 => pure.out.highs = <<>> /\ pure.out.lows = <<>>

\* two swing highs and a swing low have been returned
C12_Witness ==
    /\ Returned("get_significant_swing_points")
    /\ Len(pure.out.highs) >= 2
    /\ Len(pure.out.lows) >= 1

\* bar i of the view is a swing high as the claim defines it
SwingHighAt(candles, window, num, den, i) ==
    /\ window <= i /\ i <= Len(candles) - window - 1
    /\ \A j \in (i - window)..(i + window) : candles[j + 1].high <= candles[i + 1].high
    /\ float_less(float_of_int(candles[i + window + 1].low),
                  float_mul(float_of_int(candles[i + 1].high),
                            float_sub(FloatOne, float_of(num, den))))

\* bar i of the view is a swing low as the claim defines it
SwingLowAt(candles, window, num, den, i) ==
    /\ window <= i /\ i <= Len(candles) - window - 1
    /\ \A j \in (i - window)..(i + window) : candles[j + 1].low >= candles[i + 1].low
    /\ float_less(float_mul(float_of_int(candles[i + 1].low),
                            float_add(FloatOne, float_of(num, den))),
                  float_of_int(candles[i + window + 1].high))

\* C13: get_significant_swing_points returns index i as a swing high exactly
\* when i is interior, no bar of [i-window, i+window] has a strictly greater high
\* and low[i+window] < high[i] * (1 - threshold); a swing low is the mirror.
C13_SwingPointsExactly ==
    Returned("get_significant_swing_points") =>
        LET a == pure.arg
        IN /\ SwingIndices(pure.out.highs) =
                {i \in 0..(Len(a.candles) - 1) :
                    SwingHighAt(a.candles, a.window, a.num, a.den, i)}
           /\ SwingIndices(pure.out.lows) =
                {i \in 0..(Len(a.candles) - 1) :
                    SwingLowAt(a.candles, a.window, a.num, a.den, i)}

\* a swing high has been returned whose window holds another bar as high as it
C13_Witness ==
    /\ Returned("get_significant_swing_points")
    /\ \E i \in SwingIndices(pure.out.highs) :
          \E j \in (i - pure.arg.window)..(i + pure.arg.window) :
              j /= i /\ pure.arg.candles[j + 1].high = pure.arg.candles[i + 1].high

\* C14: for every bar with high = low, get_candle_properties does not fail and
\* returns the three ratios equal to 0 and is_doji_like true.
C14_ZeroRangeProperties ==
    Returned("get_candle_properties") /\ pure.arg.c.high = pure.arg.c.low =>
        /\ ~pure.out.raised
        /\ pure.out.body_to_range_ratio.num = 0
        /\ pure.out.upper_shadow_to_range_ratio.num = 0
        /\ pure.out.lower_shadow_to_range_ratio.num = 0
        /\ pure.out.is_doji_like

\* the properties of a bar with high = low = open = close have been returned
C14_Witness ==
    /\ Returned("get_candle_properties")
    /\ pure.arg.c.high = pure.arg.c.low
    /\ pure.arg.c.open = pure.arg.c.high
    /\ pure.arg.c.close = pure.arg.c.high
    /\ pure.arg.c.high > 0

\* x is an element of the sequence xs
InSeq(x, xs) == \E k \in 1..Len(xs) : xs[k] = x

\* the condition of the claim for "Double Top": the two most recent swing highs
\* (window 20, threshold 0.01) have at least 5 bars between them and differ by
\* less than 1.5%, and the last close is below 99% of a swing low between them
DoubleTopExpected(candles) ==
    /\ Len(candles) >= 70
    /\ LET highs == {i \in 0..(Len(candles) - 1) : SwingHighAt(candles, 20, 1, 100, i)}
           lows == {i \in 0..(Len(candles) - 1) : SwingLowAt(candles, 20, 1, 100, i)}
       IN \E i1, i2 \in highs :
            /\ i1 < i2
            /\ \A i \in highs : i <= i1 \/ i = i2
            /\ i2 - i1 > 5
            /\ Abs(candles[i1 + 1].high - candles[i2 + 1].high) * 1000
                  < 15 * candles[i1 + 1].high
            /\ \E v \in lows :
                  /\ i1 < v /\ v < i2
                  /\ Last(candles).close * 100 < candles[v + 1].low * 99

\* C15: detect_double_top_bottom returns "Double Top" exactly when the view has
\* at least 70 bars, its two most recent swing highs are far enough apart and
\* within 1.5% of each other, a swing low lies between them and the last close
\* is below 99% of it.
C15_DoubleTopExactly ==
    Returned("detect_double_top_bottom") =>
        ((~pure.out.raised /\ InSeq("Double Top", pure.out.patterns))
            <=> DoubleTopExpected(pure.arg.candles))

\* the two most recent swing highs and lows (window 10, threshold 0.002) of a
\* view detect_bos_choch analyses
StructurePoints(candles) ==
    LET sw == get_significant_swing_points(candles, 10, 2, 1000)
    IN IF Len(candles) >= 30 /\ Len(sw.highs) >= 2 /\ Len(sw.lows) >= 2
       THEN [known |-> TRUE,
             last_high |-> sw.highs[Len(sw.highs)][2],
             prev_high |-> sw.highs[Len(sw.highs) - 1][2],
             last_low |-> sw.lows[Len(sw.lows)][2],
             prev_low |-> sw.lows[Len(sw.lows) - 1][2]]
       ELSE [known |-> FALSE, last_high |-> 0, prev_high |-> 0,
             last_low |-> 0, prev_low |-> 0]

\* downtrend structure as the claim defines it: a lower high and a lower low
LowerHighLowerLow(s) ==
    s.known /\ s.last_high < s.prev_high /\ s.last_low < s.prev_low

\* uptrend structure as the claim defines it: a higher high and a higher low
HigherHighHigherLow(s) ==
    s.known /\ s.last_high > s.prev_high /\ s.last_low > s.prev_low

\* C16: detect_bos_choch classifies the structure by the prices of the two most
\* recent swing highs and lows: in downtrend structure a close more than 0.05%
\* below the last swing low gives "Bearish BOS (New LL)" and a close more than
\* 0.05% above the last swing high gives "Bullish CHoCH (Downtrend Reversal)";
\* "Bullish BOS (New HH)" and "Bearish CHoCH (Uptrend Reversal)" are given only
\* in uptrend structure.
C16_StructureByPrice ==
    Returned("detect_bos_choch") =>
        LET candles == pure.arg.candles
            s == StructurePoints(candles)
            close == Last(candles).close
        IN /\ LowerHighLowerLow(s) /\ close * 10000 < s.last_low * 9995
                => InSeq("Bearish BOS (New LL)", pure.out)
           /\ LowerHighLowerLow(s) /\ close * 10000 > s.last_high * 10005
                => InSeq("Bullish CHoCH (Downtrend Reversal)", pure.out)
           /\ InSeq("Bullish BOS (New HH)", pure.out) => HigherHighHigherLow(s)
           /\ InSeq("Bearish CHoCH (Uptrend Reversal)", pure.out) => HigherHighHigherLow(s)

\* the swing prices (window 15, threshold 0.003) of a view, ascending
SortedSwingPrices(candles) ==
    sort_prices(all_swing_prices(get_significant_swing_points(candles, 15, 3, 1000)))

\* the runs i..j of the ascending swing prices P that are clusters of at least 2:
\* every member lies within 0.1% of the first
ClusterRuns(P) ==
    {r \in (1..Len(P)) \X (1..Len(P)) :
        /\ r[1] < r[2]
        /\ \A k \in r[1]..r[2] : (P[k] - P[r[1]]) * 1000 < P[r[1]]}

RunSum(P, r) == sum_seq(SubSeq(P, r[1], r[2]))
RunLen(r) == r[2] - r[1] + 1

\* the level L, in hundredths, is exactly the mean of the run
ExactMean(L, P, r) == L * RunLen(r) = 100 * RunSum(P, r)

\* the level L, in hundredths, is the hundredth nearest to the mean of the run
NearestHundredth(L, P, r) ==
    2 * Abs(100 * RunSum(P, r) - L * RunLen(r)) <= RunLen(r)

Descending(xs) == \A k \in 1..(Len(xs) - 1) : xs[k] >= xs[k + 1]
Ascending(xs) == \A k \in 1..(Len(xs) - 1) : xs[k] <= xs[k + 1]

\* C17 as stated: for a view of at least 50 bars every level detect_auto_sr
\* returns is the arithmetic mean of a cluster of at least 2 swing prices, every
\* support level is strictly below the last close and the list descends, every
\* resistance level is at or above the last close and the list ascends; for a
\* view of fewer than 50 bars both lists are empty.
C17_LevelsAreExactMeans ==
    Returned("detect_auto_sr") /\ ~pure.out.raised =>
        LET candles == pure.arg.candles
            P == SortedSwingPrices(candles)
            close == Last(candles).close
            sup == pure.out.support
            res == pure.out.resistance
        IN IF Len(candles) < 50 THEN sup = <<>> /\ res = <<>>
           ELSE /\ \A k \in 1..Len(sup) :
                     /\ \E r \in ClusterRuns(P) : ExactMean(sup[k], P, r)
                     /\ sup[k] < 100 * close
                /\ \A k \in 1..Len(res) :
                     /\ \E r \in ClusterRuns(P) : ExactMean(res[k], P, r)
                     /\ res[k] >= 100 * close
                /\ Descending(sup) /\ Ascending(res)

\* C17 (amended): every level detect_auto_sr returns is the arithmetic mean of a
\* cluster of at least 2 swing prices rounded to 2 decimals; the mean behind a
\* support level is strictly below the last close and the list descends, the
\* mean behind a resistance level is at or above the last close and the list
\* ascends; for a view of fewer than 50 bars both lists are empty.
C17_LevelsAreRoundedMeans ==
    Returned("detect_auto_sr") /\ ~pure.out.raised =>
        LET candles == pure.arg.candles
            P == SortedSwingPrices(candles)
            close == Last(candles).close
            sup == pure.out.support
            res == pure.out.resistance
        IN IF Len(candles) < 50 THEN sup = <<>> /\ res = <<>>
           ELSE /\ \A k \in 1..Len(sup) :
                     \E r \in ClusterRuns(P) :
                         /\ NearestHundredth(sup[k], P, r)
                         /\ RunSum(P, r) < close * RunLen(r)
                /\ \A k \in 1..Len(res) :
                     \E r \in ClusterRuns(P) :
                         /\ NearestHundredth(res[k], P, r)
                         /\ RunSum(P, r) >= close * RunLen(r)
                /\ Descending(sup) /\ Ascending(res)

\* a view of at least 50 bars with a support level and a resistance level, one
\* of them a mean that 2 decimals do not hold
C17_Witness ==
    /\ Returned("detect_auto_sr") /\ ~pure.out.raised
    /\ Len(pure.arg.candles) >= 50
    /\ pure.out.support /= <<>>
    /\ pure.out.resistance /= <<>>
    /\ \E k \in 1..Len(pure.out.resistance) :
           \A r \in ClusterRuns(SortedSwingPrices(pure.arg.candles)) :
               ~ExactMean(pure.out.resistance[k], SortedSwingPrices(pure.arg.candles), r)

\* the sum of the closes of the bars that lie from-th to to-th from the end of
\* the view, the last bar being the 1st
ClosesFromEnd(candles, from, to) ==
    LET n == Len(candles)
        S == [k \in 1..(to - from + 1) |-> candles[n - to + k].close]
    IN sum_seq(S)

\* the answer for a first average sum1/n1 and a second average sum2/n2
Compared(sum1, n1, sum2, n2) ==
    IF sum1 * n2 > sum2 * n1 THEN "Uptrend"
    ELSE IF sum1 * n2 < sum2 * n1 THEN "Downtrend"
    ELSE "Sideways"

\* C19 as stated: get_trend_direction compares the simple moving average of the
\* last 10 closes with that of the 10 closes before them ("Uptrend" when the
\* current one is greater, "Downtrend" when less, "Sideways" when equal), and
\* returns "Unknown" when fewer than 10 bars are available.
C19_TrendAgainstPreviousTen ==
    Returned("get_trend_direction") =>
        LET candles == pure.arg.candles
        IN /\ Len(candles) < 10 => pure.out = <<"Unknown">>
           /\ Len(candles) >= 20 =>
                pure.out = <<Compared(ClosesFromEnd(candles, 1, 10), 10,
                                      ClosesFromEnd(candles, 11, 20), 10)>>

\* C19 (amended): get_trend_direction compares the simple moving average of the
\* last 10 closes with the average of the first 9 of those 10 closes: "Uptrend"
\* when the average of the 10 is greater, "Downtrend" when less, "Sideways" when
\* equal, and "Unknown" exactly when fewer than 10 bars are available.
C19_TrendAgainstFirstNine ==
    Returned("get_trend_direction") =>
        LET candles == pure.arg.candles
        IN IF Len(candles) < 10 THEN pure.out = <<"Unknown">>
           ELSE pure.out = <<Compared(ClosesFromEnd(candles, 1, 10), 10,
                                      ClosesFromEnd(candles, 2, 10), 9)>>

\* a view of 20 bars whose last 10 closes average less than the 10 before them
\* and that is nevertheless in "Uptrend"
C19_Witness ==
    /\ Returned("get_trend_direction")
    /\ Len(pure.arg.candles) >= 20
    /\ ClosesFromEnd(pure.arg.candles, 1, 10) < ClosesFromEnd(pure.arg.candles, 11, 20)
    /\ pure.out = <<"Uptrend">>

\* timeframe B may confirm timeframe A: another timeframe, of equal or higher
\* rank in 1h < 4h < 1d, with at least 5 merged bars
MayConfirm(B, A, all_tf_data) ==
    /\ B /= A
    /\ \E i, j \in 1..Len(INTERVALS) : INTERVALS[i] = A /\ INTERVALS[j] = B /\ j >= i
    /\ Len(all_tf_data[B]) >= 5

BothIn(trend, B, A, all_tf_data) ==
    /\ get_trend_direction(all_tf_data[A]) = trend
    /\ get_trend_direction(all_tf_data[B]) = trend

\* C18: get_multi_tf_confirmations for timeframe A contains a trend-alignment
\* string naming timeframe B exactly when B is a different timeframe of equal or
\* higher rank with at least 5 merged bars and A and B are both in "Uptrend" or
\* both in "Downtrend"; it never names A itself, a lower timeframe or a timeframe
\* with fewer than 5 merged bars.
C18_TrendAlignmentExactly ==
    Returned("get_multi_tf_confirmations") =>
        LET A == pure.arg.current_tf_name
            d == pure.arg.all_tf_data
        IN \A B \in TFS :
               /\ InSeq(<<"Tren naik selaras di ", upper(B)>>, pure.out)
                    <=> MayConfirm(B, A, d) /\ BothIn("Uptrend", B, A, d)
               /\ InSeq(<<"Tren turun selaras di ", upper(B)>>, pure.out)
                    <=> MayConfirm(B, A, d) /\ BothIn("Downtrend", B, A, d)

\* 4h is confirmed by 1d while 1h, in the same trend with 10 bars, is not named
C18_Witness ==
    /\ Returned("get_multi_tf_confirmations")
    /\ pure.arg.current_tf_name = "4h"
    /\ BothIn("Uptrend", "1h", "4h", pure.arg.all_tf_data)
    /\ InSeq(<<"Tren naik selaras di ", "1D">>, pure.out)
    /\ ~InSeq(<<"Tren naik selaras di ", "1H">>, pure.out)

\* c1 is bearish, c2 is bullish, c2 closes above the open of c1 and opens below
\* its close, and the body of c2 exceeds 0.9 times the body of c1
BullishEngulfing(c1, c2) ==
    /\ c1.close < c1.open
    /\ c2.close > c2.open
    /\ c2.close > c1.open
    /\ c2.open < c1.close
    /\ 10 * (c2.close - c2.open) > 9 * (c1.open - c1.close)

\* C20: is_bullish_engulfing(c1, c2) is true exactly when c1 is bearish, c2 is
\* bullish, c2.close > c1.open, c2.open < c1.close and the body of c2 exceeds 0.9
\* times that of c1; detect_price_action lists "Bullish Engulfing" exactly when
\* this holds for the last two bars of a view of at least 3 bars, returns an
\* empty list for a view of fewer than 3 bars, and never lists "Bullish
\* Engulfing" and "Bearish Engulfing" together.
C20_BullishEngulfingExactly ==
    /\ Returned("is_bullish_engulfing") =>
           pure.out = <<BullishEngulfing(pure.arg.c1, pure.arg.c2)>>
    /\ Returned("detect_price_action") =>
           LET candles == pure.arg.candles
               n == Len(candles)
               listed_as(name) == ~pure.out.raised /\ InSeq(name, pure.out.patterns)
           IN /\ n < 3 => ~pure.out.raised /\ pure.out.patterns = <<>>
              /\ n >= 3 => (listed_as("Bullish Engulfing")
                               <=> BullishEngulfing(candles[n - 1], candles[n]))
              /\ ~(listed_as("Bullish Engulfing") /\ listed_as("Bearish Engulfing"))

\* the trends get_trend_direction names
Trends == {"Uptrend", "Downtrend", "Sideways", "Unknown"}

\* the list holds a tag of this single-bar reversal, in whatever context
Tagged(name, patterns) == \E t \in Trends : InSeq(in_context(name, t), patterns)

\* C27: the trend context decides which single-bar reversal tag
\* detect_price_action emits: for one tail bar it never emits both a "Hammer" tag
\* and a "Hanging Man" tag, and never both an "Inverted Hammer" tag and a
\* "Shooting Star" tag.
C27_OneReversalTagPerShape ==
    Returned("detect_price_action") /\ ~pure.out.raised =>
        /\ ~(Tagged("Hammer", pure.out.patterns) /\ Tagged("Hanging Man", pure.out.patterns))
        /\ ~(Tagged("Inverted Hammer", pure.out.patterns)
             /\ Tagged("Shooting Star", pure.out.patterns))

\* the rationale of the patterns that reverse an uptrend and of those that
\* reverse a downtrend
UpToDownText == "Menunjukkan potensi pembalikan tren dari naik menjadi turun."
DownToUpText == "Menunjukkan potensi pembalikan tren dari turun menjadi naik."

\* the description shows this tag with this rationale; the two texts of the code
\* are spelled out because a string cannot be taken apart
Describes(description, tag, text) ==
    \/ /\ tag = "Double Top" /\ text = UpToDownText
       /\ description
            = "**Double Top**: Menunjukkan potensi pembalikan tren dari naik menjadi turun."
    \/ /\ tag = "Head & Shoulders" /\ text = UpToDownText
       /\ description
            = "**Head & Shoulders**: Menunjukkan potensi pembalikan tren dari naik menjadi turun."
    \/ /\ tag = "Double Bottom" /\ text = DownToUpText
       /\ description
            = "**Double Bottom**: Menunjukkan potensi pembalikan tren dari turun menjadi naik."
    \/ /\ tag = "Inverse Head & Shoulders" /\ text = DownToUpText
       /\ description
            = "**Inverse Head & Shoulders**: Menunjukkan potensi pembalikan tren dari turun menjadi naik."

\* the rationale of the family of a tag
FamilyText(tag) ==
    IF tag \in {"Double Top", "Head & Shoulders"} THEN UpToDownText ELSE DownToUpText

\* C21: every chart-pattern tag in a report is described with the fixed
\* rationale of its own family: "Double Top" and "Head & Shoulders" with the
\* up-to-down reversal text, "Double Bottom" and "Inverse Head & Shoulders" with
\* the down-to-up reversal text; an "Inverse Head & Shoulders" firing is never
\* described with the "Head & Shoulders" rationale.
C21_TagsDescribedByOwnFamily ==
    Returned("cp_descriptions") /\ ~pure.out.raised =>
        /\ Len(pure.out.cp_descriptions) = Len(pure.out.cp_patterns)
        /\ \A k \in 1..Len(pure.out.cp_patterns) :
               Describes(pure.out.cp_descriptions[k], pure.out.cp_patterns[k],
                         FamilyText(pure.out.cp_patterns[k]))

\* the candle the scan analysed for the entry is the candle of the live slot of
\* its timeframe, and that candle is not final
FromLiveSlot(part) ==
    LET live_c == _live_websocket_candle_data[part.tf]
    IN live_c /= NoCandle /\ ~live_c.is_final_bar /\ part.candle = live_c

\* C22: a report entry carries the live-candle narrative, and the LIVE tag with
\* its time progress, exactly when the candle it analyses is a non-final candle
\* taken from the live slot; an entry for a final candle carries no narrative,
\* and get_live_candle_potential_and_process returns the empty string for it.
C22_NarrativeIffLiveCandle ==
    [][\A i \in 1..Len(scans) :
          ScanLocked(i) =>
              \A k \in 1..Len(scans'[i].parts) :
                  LET part == scans'[i].parts[k]
                  IN part.kind = "full" =>
                      /\ (part.narrative /= NoNarrative) = FromLiveSlot(part)
                      /\ (part.time_progress_info /= <<>>) = FromLiveSlot(part)
                      /\ part.is_live = FromLiveSlot(part)
                      /\ part.candle.is_final_bar =>
                            /\ part.narrative = NoNarrative
                            /\ get_live_candle_potential_and_process(
                                   part.candle, Ratio(1, 2),
                                   get_average_volume(_candle_data_cache[part.tf]))
                               = NoNarrative]_vars

\* one report holds an entry for a live candle with its narrative and time
\* progress, and an entry for a final candle without them
C22_Witness ==
    \E i \in 1..Len(scans) : \E p, q \in FullParts(i) :
        /\ p.is_live /\ ~p.candle.is_final_bar
        /\ p.narrative.potential_info /= <<>>
        /\ p.narrative.implication_info /= <<>>
        /\ p.time_progress_info /= <<>>
        /\ ~q.is_live /\ q.candle.is_final_bar
        /\ q.narrative = NoNarrative

\* the entries of scan i that report a candle as FINAL (Closed)
FinalParts(i) == {p \in FullParts(i) : ~p.is_live}

\* C23: over all scans, the timer's and the triggered ones, a final candle of a
\* timeframe (one close_time) is reported as FINAL in at most one report.
C23_FinalReportedOnce ==
    \A i, j \in 1..Len(scans) :
        i /= j =>
            \A p \in FinalParts(i) : \A q \in FinalParts(j) :
                ~(p.tf = q.tf /\ p.candle.close_time = q.candle.close_time)

\* C24: in every scan, for every timeframe reported in full, the candle taken
\* as latest_candle is the last element of the merged sequence the detectors
\* are given, also when the live slot holds a non-final candle that opened
\* before the last candle of the cached history.
C24_LatestIsLastAnalysed ==
    \A i \in 1..Len(scans) : \A part \in FullParts(i) :
        part.candle = part.last_analysed

\* scan i was started by on_message for timeframe tf and waits for the lock
TriggeredScanWaits(i, tf) ==
    i \in 1..Len(scans) /\ scans[i].trig = tf /\ scans[i].pc = "ready"

\* scan i reported the last bar of timeframe tf as FINAL and marked its
\* close_time as processed
TriggeredScanReported(i, tf) ==
    /\ i \in 1..Len(scans)
    /\ Scanned(i)
    /\ \E p \in FinalParts(i) :
          p.tf = tf /\ last_processed_final_candle_time[tf] = p.candle.close_time

\* C25: under fair scheduling, every scan on_message starts after re-fetching
\* the history of a timeframe eventually reports the last bar of that timeframe
\* as FINAL and sets last_processed_final_candle_time of the timeframe to its
\* close_time, whatever live updates arrive before the scan takes the lock.
C25_TriggeredScanReportsFinal ==
    \A i \in 1..MaxScans : \A tf \in TFS :
        TriggeredScanWaits(i, tf) ~> TriggeredScanReported(i, tf)

\* scan i waits at line 635 for the lock
ScanWaits(i) == i \in 1..Len(scans) /\ scans[i].pc = "ready"

\* scan i has been through its locked block and has released the lock
ScanReleased(i) == i \in 1..Len(scans) /\ Scanned(i)

\* a thread takes the lock only when no thread holds it, and the lock goes from
\* the holder to nobody
LockPassesViaNobody ==
    /\ data_cache_lock' /= data_cache_lock =>
          data_cache_lock = "free" \/ data_cache_lock' = "free"
    /\ \A i \in 1..MaxScans : ScanThreadLocks(i) => data_cache_lock = "free"

\* C26: the program never deadlocks on data_cache_lock: a thread takes the lock
\* only when no thread holds it, and the lock goes from the holder to nobody;
\* with every fetch returning or raising, a held lock is eventually released and
\* under fair scheduling every scan waiting for the lock eventually gets it and
\* releases it.
C26_EveryWaitingScanGetsTheLock ==
    /\ [][LockPassesViaNobody]_vars
    /\ (data_cache_lock /= "free") ~> (data_cache_lock = "free")
    /\ \A i \in 1..MaxScans : ScanWaits(i) ~> ScanReleased(i)

\* body_abs + upper_shadow + lower_shadow, added from the left as Python does
ShadowsAndBody(p) == float_add(float_add(p.body_abs, p.upper_shadow), p.lower_shadow)

\* the call's prices meet low <= open, close <= high
DecimalBarInvariant ==
    /\ pure.arg.l <= pure.arg.o /\ pure.arg.l <= pure.arg.c
    /\ pure.arg.o <= pure.arg.h /\ pure.arg.c <= pure.arg.h

\* 0 <= x <= 1
InUnitInterval(x) == ~x.neg /\ ~float_less(FloatOne, x)

\* the two doubles differ by at most 2^-50 times the highest price of the call
WithinRounding(x, y) ==
    LET top == float_of(Max2(Max2(pure.arg.o, pure.arg.h), Max2(pure.arg.l, pure.arg.c)),
                        pure.arg.den)
        bound == IF top = FloatZero THEN FloatZero ELSE [top EXCEPT !.exp = @ - 50]
    IN ~float_less(bound, float_sub(x, y)) /\ ~float_less(bound, float_sub(y, x))

\* never both bullish and bearish; for a bar that meets the bar invariant both
\* shadows are >= 0 and each ratio lies in [0, 1]
C28_SignsAndRatios ==
    /\ ~(pure.out.is_bullish /\ pure.out.is_bearish)
    /\ DecimalBarInvariant =>
          /\ ~pure.out.upper_shadow.neg /\ ~pure.out.lower_shadow.neg
          /\ InUnitInterval(pure.out.body_to_range_ratio)
          /\ InUnitInterval(pure.out.upper_shadow_to_range_ratio)
          /\ InUnitInterval(pure.out.lower_shadow_to_range_ratio)

\* C28 as stated: for every bar get_candle_properties returns body_abs,
\* upper_shadow and lower_shadow whose sum equals full_range, and never both
\* is_bullish and is_bearish; for a bar that meets the bar invariant both
\* shadows are >= 0 and each ratio lies in [0, 1].
C28_BodyAndShadowsAreTheRange ==
    Returned("get_candle_properties_of_floats") =>
        /\ ShadowsAndBody(pure.out) = pure.out.full_range
        /\ C28_SignsAndRatios

\* C28 as amended: the sum of body_abs, upper_shadow and lower_shadow equals
\* full_range up to the rounding of the float subtractions and additions (within
\* 2^-50 of the highest price), and exactly when the prices are whole numbers;
\* never both is_bullish and is_bearish; for a bar that meets the bar invariant
\* both shadows are >= 0 and each ratio lies in [0, 1].
C28_BodyAndShadowsNearTheRange ==
    Returned("get_candle_properties_of_floats") =>
        /\ WithinRounding(ShadowsAndBody(pure.out), pure.out.full_range)
        /\ pure.arg.den = 1 => ShadowsAndBody(pure.out) = pure.out.full_range
        /\ C28_SignsAndRatios

\* the bar open 0.1, high 0.8, low 0.0, close 0.3 meets the bar invariant, and
\* the sum of its body and shadows is not its range
C28_Witness ==
    /\ Returned("get_candle_properties_of_floats")
    /\ DecimalBarInvariant
    /\ pure.arg.den = 10
    /\ pure.out.is_bullish
    /\ ShadowsAndBody(pure.out) /= pure.out.full_range
    /\ WithinRounding(ShadowsAndBody(pure.out), pure.out.full_range)

====
